----------------------------- MODULE UiLoopProofs -----------------------------
(***************************************************************************)
(* What UiLoop's workers may do to the services they work for, for every    *)
(* number of workers, workspaces, files and keys.                          *)
(*                                                                         *)
(* The services never see each other's jobs, so the argument is about the   *)
(* jobs that are held, queued or in a worker's hands, and about what each   *)
(* worker found: a result is always of the workspace of its job; the jobs   *)
(* of the newest request are of what is asked now; and, until the answer to *)
(* the newest request is stored, one of its jobs is still held.            *)
(***************************************************************************)
EXTENDS UiLoop, TLAPS

Listings  == [root : Roots, tree : Nat]
Found     == [query : Queries, root : Roots, tree : Nat]
FileDiffs == [root : Roots, lines : Lines, tree : Nat]
Jobs ==
  [svc : {"search"}, query : Queries, root : Roots, token : Nat]
  \cup [svc : {"dirs", "index", "refresh"}, root : Roots, token : Nat]
  \cup [svc : {"diff"}, root : Roots, token : Nat, path : Paths, lines : Lines]
Pcs == {"wait", "ready", "taken", "scanned", "checked", "published", "notify", "exit"}
Gots == Listings \cup Found \cup FileDiffs \cup {NoJob}
Threads == [pc : Pcs, job : Jobs \cup {NoJob}, got : Gots]

Queued == {jobs[i] : i \in 1 .. Len(jobs)}
InHand == {worker[w].job : w \in {v \in Workers : Running(v)}}
Held   == Queued \cup InHand

\* What the pool is, and who may have left it.
PoolOK ==
  /\ jobs \in Seq(Jobs)
  /\ worker \in [Workers -> Threads]
  /\ token \in Nat
  /\ \A w \in Workers : Running(w) => worker[w].job \in Jobs
  /\ \A j \in Held : j.token < token
  /\ stopFlag = (ui = "joining")
  /\ (\E w \in Workers : worker[w].pc = "exit") => ui \in {"joining", "gone"} /\ jobs = <<>>

\* What the services are.
ServicesOK ==
  /\ tree \in Nat
  /\ projectPath \in Roots /\ indexRoot \in Roots /\ searchRoot \in Roots
  /\ active \in [path : Paths, lines : Lines]
  /\ diffs \in [Paths -> FileDiffs \cup {NoDiff}]
  /\ diffPath \in Paths \cup {NoPath}
  /\ scmRoot \in Roots /\ asked \in Nat /\ asked <= tree
  /\ refreshToken < token /\ diffToken < token /\ refreshToken \in Nat /\ diffToken \in Nat

\* A worker that has scanned holds what its job asked for.
HasFound(w) == worker[w].pc \in {"scanned", "checked"}
FoundOK ==
  \A w \in Workers : HasFound(w) =>
    LET job == worker[w].job
        got == worker[w].got
    IN  /\ job.svc \in {"dirs", "index", "refresh"} => got \in Listings /\ got.root = job.root
        /\ job.svc = "diff" => got \in FileDiffs /\ got.root = job.root /\ got.lines = job.lines

\* The newest refresh is of the open workspace and reads the files as they were when it
\* was asked for, or later; until one has, it is held.
Pending(svc, t) == \E j \in Held : j.svc = svc /\ j.token = t
SnapshotFresh == snapshot \in Listings /\ snapshot.root = scmRoot /\ snapshot.tree >= asked
RefreshOK ==
  /\ \A j \in Held : j.svc = "refresh" /\ j.token = refreshToken => j.root = scmRoot
  /\ \A w \in Workers :
       HasFound(w) /\ worker[w].job.svc = "refresh" /\ worker[w].job.token = refreshToken =>
         worker[w].got.tree >= asked
  /\ SnapshotFresh \/ Pending("refresh", refreshToken)

\* The same for the diff of the file that the UI asked about last.
DiffIsOfLast(root, path, n) == root = scmRoot /\ path = diffPath /\ n = diffLines
DiffFresh ==
  /\ diffs[diffPath] \in FileDiffs
  /\ diffs[diffPath].root = scmRoot /\ diffs[diffPath].lines = diffLines
DiffOK ==
  diffPath # NoPath =>
    /\ \A j \in Held : j.svc = "diff" /\ j.token = diffToken => DiffIsOfLast(j.root, j.path, j.lines)
    /\ DiffFresh \/ Pending("diff", diffToken)

IInv == PoolOK /\ ServicesOK /\ FoundOK /\ ListingsOfThisRoot /\ RefreshOK /\ DiffOK

-------------------------------------------------------------------------------
(* What the pool's own steps do to what is held.                           *)

\* A worker's step changes that worker alone.
Moved(w, pc, job, got) ==
  /\ worker' \in [Workers -> Threads]
  /\ worker'[w].pc = pc /\ worker'[w].job = job /\ worker'[w].got = got
  /\ \A v \in Workers : v # w => worker'[v] = worker[v]

LEMMA ThreadParts ==
  ASSUME worker \in [Workers -> Threads], NEW w \in Workers
  PROVE  /\ worker[w].pc \in Pcs
         /\ worker[w].job \in Jobs \cup {NoJob}
         /\ worker[w].got \in Gots
  BY DEF Threads

LEMMA GotoMoves ==
  ASSUME worker \in [Workers -> Threads], NEW w \in Workers, NEW pc \in Pcs, Goto(w, pc)
  PROVE  Moved(w, pc, worker[w].job, worker[w].got)
<1>1. worker' = [worker EXCEPT ![w] = [worker[w] EXCEPT !.pc = pc]]
  BY DEF Goto
<1>2. worker[w] \in Threads
  OBVIOUS
<1>3. /\ [worker[w] EXCEPT !.pc = pc] \in Threads
      /\ [worker[w] EXCEPT !.pc = pc].pc = pc
      /\ [worker[w] EXCEPT !.pc = pc].job = worker[w].job
      /\ [worker[w] EXCEPT !.pc = pc].got = worker[w].got
  BY <1>2 DEF Threads
<1>. QED BY <1>1, <1>3 DEF Moved

LEMMA ScannedMoves ==
  ASSUME worker \in [Workers -> Threads], NEW w \in Workers, NEW found \in Gots,
         Scanned(w, found)
  PROVE  Moved(w, "scanned", worker[w].job, found)
<1>1. worker' = [worker EXCEPT ![w] = [worker[w] EXCEPT !.pc = "scanned", !.got = found]]
  BY DEF Scanned
<1>2. worker[w] \in Threads
  OBVIOUS
<1> DEFINE t == [worker[w] EXCEPT !.pc = "scanned", !.got = found]
<1>3. t \in Threads /\ t.pc = "scanned" /\ t.job = worker[w].job /\ t.got = found
  BY <1>2 DEF Threads, Pcs, Gots
<1>. QED BY <1>1, <1>3 DEF Moved

LEMMA ReturnMoves ==
  ASSUME worker \in [Workers -> Threads], NEW w \in Workers, Return(w)
  PROVE  \E pc \in {"notify", "ready"} : Moved(w, pc, NoJob, NoJob)
<1> DEFINE pc == IF uiWake THEN "notify" ELSE "ready"
<1>1. [pc |-> pc, job |-> NoJob, got |-> NoJob] \in Threads
  BY DEF Threads, Pcs, Gots
<1>2. Moved(w, pc, NoJob, NoJob)
  BY <1>1 DEF Return, Moved
<1>. QED BY <1>2

\* A job that goes on is held as before.
LEMMA GoesOn ==
  ASSUME NEW w \in Workers, NEW pc \in {"taken", "scanned", "checked", "published"}, NEW got,
         Moved(w, pc, worker[w].job, got), Running(w), UNCHANGED jobs
  PROVE  Held' = Held
<1>1. \A v \in Workers : Running(v)' = Running(v) /\ worker'[v].job = worker[v].job
  BY DEF Running, Moved
<1>2. InHand' = InHand
  BY <1>1 DEF InHand
<1>. QED BY <1>2 DEF Held, Queued

\* A worker that holds no job changes nothing in what is held, and one whose job
\* returned lets go of that job.
LEMMA IdleMoves ==
  ASSUME NEW w \in Workers, NEW pc \in {"wait", "ready", "notify", "exit"}, NEW job, NEW got,
         Moved(w, pc, job, got), UNCHANGED jobs
  PROVE  /\ ~Running(w) => Held' = Held
         /\ Held' \subseteq Held /\ Held \subseteq Held' \cup {worker[w].job}
<1>1. ~Running(w)' /\ \A v \in Workers : v # w => worker'[v] = worker[v]
  BY DEF Moved, Running
<1>2. InHand' \subseteq InHand /\ InHand \subseteq InHand' \cup {worker[w].job}
  BY <1>1 DEF InHand, Running
<1>3. ~Running(w) => InHand' = InHand
  BY <1>1 DEF InHand, Running
<1>. QED BY <1>2, <1>3 DEF Held, Queued

\* Posting adds the jobs posted, and only wakes workers.
LEMMA PostHolds ==
  ASSUME NEW js \in Seq(Jobs), jobs \in Seq(Jobs), worker \in [Workers -> Threads], Post(js)
  PROVE  /\ jobs' \in Seq(Jobs)
         /\ worker' \in [Workers -> Threads]
         /\ Held' = Held \cup {js[k] : k \in 1 .. Len(js)}
         /\ \A w \in Workers :
              \/ worker'[w] = worker[w]
              \/ worker[w].pc = "wait" /\ worker'[w] = [worker[w] EXCEPT !.pc = "ready"]
<1>1. jobs' = jobs \o js /\ jobs' \in Seq(Jobs)
  BY DEF Post
<1>2. PICK woken \in SUBSET Asleep :
        worker' = [w \in Workers |->
                     IF w \in woken THEN [worker[w] EXCEPT !.pc = "ready"] ELSE worker[w]]
  BY DEF Post
<1>3. \A w \in Workers :
        \/ worker'[w] = worker[w]
        \/ worker[w].pc = "wait" /\ worker'[w] = [worker[w] EXCEPT !.pc = "ready"]
  BY <1>2 DEF Asleep
<1>4. worker' \in [Workers -> Threads]
  <2>1. ASSUME NEW t \in Threads
        PROVE  [t EXCEPT !.pc = "ready"] \in Threads
    BY DEF Threads, Pcs
  <2>. QED BY <1>2, <2>1
<1>5. \A w \in Workers : Running(w)' = Running(w) /\ worker'[w].job = worker[w].job
  <2> SUFFICES ASSUME NEW w \in Workers
               PROVE  Running(w)' = Running(w) /\ worker'[w].job = worker[w].job
    OBVIOUS
  <2>1. CASE worker'[w] = worker[w]
    BY <2>1 DEF Running
  <2>2. CASE worker[w].pc = "wait" /\ worker'[w] = [worker[w] EXCEPT !.pc = "ready"]
    <3>1. worker[w] \in Threads
      OBVIOUS
    <3>2. worker'[w].pc = "ready" /\ worker'[w].job = worker[w].job
      BY <2>2, <3>1 DEF Threads
    <3>. QED BY <2>2, <3>2 DEF Running
  <2>. QED BY <1>3, <2>1, <2>2
<1>6. InHand' = InHand
  BY <1>5 DEF InHand
<1>7. Queued' = Queued \cup {js[k] : k \in 1 .. Len(js)}
  <2>1. ASSUME NEW i \in 1 .. Len(jobs')
        PROVE  jobs'[i] \in Queued \cup {js[k] : k \in 1 .. Len(js)}
    <3>1. CASE i <= Len(jobs)
      <4>1. i \in 1 .. Len(jobs) /\ jobs'[i] = jobs[i]
        BY <1>1, <3>1
      <4>. QED BY <4>1 DEF Queued
    <3>2. CASE i > Len(jobs)
      <4>1. i - Len(jobs) \in 1 .. Len(js) /\ jobs'[i] = js[i - Len(jobs)]
        BY <1>1, <3>2
      <4>. QED BY <4>1
    <3>. QED BY <3>1, <3>2
  <2>2. ASSUME NEW i \in 1 .. Len(jobs)
        PROVE  jobs[i] \in Queued'
    <3>1. i \in 1 .. Len(jobs') /\ jobs'[i] = jobs[i]
      BY <1>1
    <3>. QED BY <3>1 DEF Queued
  <2>3. ASSUME NEW k \in 1 .. Len(js)
        PROVE  js[k] \in Queued'
    <3>1. Len(jobs) + k \in 1 .. Len(jobs') /\ jobs'[Len(jobs) + k] = js[k]
      BY <1>1
    <3>. QED BY <3>1 DEF Queued
  <2>. QED BY <2>1, <2>2, <2>3 DEF Queued
<1>. QED BY <1>1, <1>3, <1>4, <1>6, <1>7 DEF Held

\* A worker that takes the first job holds it in the queue's stead.
LEMMA TakeHolds ==
  ASSUME jobs \in Seq(Jobs), worker \in [Workers -> Threads], NEW w \in Workers, Take(w)
  PROVE  /\ jobs' \in Seq(Jobs)
         /\ Moved(w, "taken", Head(jobs), worker[w].got)
         /\ Head(jobs) \in Jobs
         /\ Held' = Held
<1>1. jobs # <<>> /\ Head(jobs) \in Jobs /\ jobs' = Tail(jobs) /\ jobs' \in Seq(Jobs)
  BY DEF Take
<1>2. Moved(w, "taken", Head(jobs), worker[w].got)
  <2> DEFINE t == [worker[w] EXCEPT !.pc = "taken", !.job = Head(jobs)]
  <2>1. worker' = [worker EXCEPT ![w] = t]
    BY DEF Take
  <2>2. worker[w] \in Threads
    OBVIOUS
  <2>3. t \in Threads /\ t.pc = "taken" /\ t.job = Head(jobs) /\ t.got = worker[w].got
    BY <1>1, <2>2 DEF Threads, Pcs
  <2>. QED BY <2>1, <2>3 DEF Moved
<1>5. InHand' = InHand \cup {Head(jobs)}
  <2>1. ~Running(w) /\ Running(w)' /\ worker'[w].job = Head(jobs)
    BY <1>2 DEF Take, Running, Moved
  <2>2. \A v \in Workers : v # w => Running(v)' = Running(v) /\ worker'[v].job = worker[v].job
    BY <1>2 DEF Running, Moved
  <2>. QED BY <2>1, <2>2 DEF InHand
<1>6. Queued = Queued' \cup {Head(jobs)}
  <2>1. \A i \in 1 .. Len(jobs') : i + 1 \in 1 .. Len(jobs) /\ jobs'[i] = jobs[i + 1]
    BY <1>1
  <2>2. ASSUME NEW i \in 1 .. Len(jobs)
        PROVE  jobs[i] = Head(jobs) \/ (i - 1 \in 1 .. Len(jobs') /\ jobs[i] = jobs'[i - 1])
    BY <1>1
  <2>3. 1 \in 1 .. Len(jobs) /\ Head(jobs) = jobs[1]
    BY <1>1
  <2>4. Queued' \subseteq Queued
    BY <2>1 DEF Queued
  <2>5. Queued \subseteq Queued' \cup {Head(jobs)}
    BY <2>2 DEF Queued
  <2>6. Head(jobs) \in Queued
    BY <2>3 DEF Queued
  <2>. QED BY <2>4, <2>5, <2>6
<1>. QED BY <1>1, <1>2, <1>5, <1>6 DEF Held

-------------------------------------------------------------------------------
(* What the steps of each kind leave of the invariant.                      *)

ThreadFound(t) ==
  t.pc \in {"scanned", "checked"} =>
    /\ t.job.svc \in {"dirs", "index", "refresh"} => t.got \in Listings /\ t.got.root = t.job.root
    /\ t.job.svc = "diff" =>
         t.got \in FileDiffs /\ t.got.root = t.job.root /\ t.got.lines = t.job.lines

LEMMA FoundByThread == FoundOK <=> \A w \in Workers : ThreadFound(worker[w])
  BY DEF FoundOK, ThreadFound, HasFound

\* A step of the UI that posts nothing.
LEMMA NothingPosted ==
  ASSUME PoolOK, FoundOK, UNCHANGED <<jobs, worker, token, stopFlag>>,
         ui' = ui \/ (ui \notin {"joining", "gone"} /\ ui' \notin {"joining", "gone"})
  PROVE  PoolOK' /\ FoundOK' /\ Held' = Held
<1>1. Held' = Held /\ \A w \in Workers : Running(w)' = Running(w)
  BY DEF Held, Queued, InHand, Running
<1>2. PoolOK'
  BY <1>1 DEF PoolOK
<1>3. FoundOK'
  BY DEF FoundOK, HasFound
<1>. QED BY <1>1, <1>2, <1>3

\* A step of the UI that posts.
LEMMA SomePosted ==
  ASSUME PoolOK, FoundOK, NEW js \in Seq(Jobs), Post(js),
         token' \in Nat, token <= token', \A k \in 1 .. Len(js) : js[k].token < token',
         ui \notin {"joining", "gone"}, ui' \notin {"joining", "gone"}
  PROVE  /\ PoolOK' /\ FoundOK'
         /\ Held' = Held \cup {js[k] : k \in 1 .. Len(js)}
         /\ \A w \in Workers : HasFound(w)' => worker'[w] = worker[w]
<1>1. /\ jobs' \in Seq(Jobs) /\ worker' \in [Workers -> Threads]
      /\ Held' = Held \cup {js[k] : k \in 1 .. Len(js)}
      /\ \A w \in Workers :
           \/ worker'[w] = worker[w]
           \/ worker[w].pc = "wait" /\ worker'[w] = [worker[w] EXCEPT !.pc = "ready"]
  BY PostHolds DEF PoolOK
<1>2. ASSUME NEW w \in Workers
      PROVE  worker'[w] = worker[w] \/ worker'[w].pc = "ready"
  <2>1. worker[w] \in Threads
    BY DEF PoolOK
  <2>2. [worker[w] EXCEPT !.pc = "ready"].pc = "ready"
    BY <2>1 DEF Threads
  <2>. QED BY <1>1, <2>2
<1>3. \A w \in Workers : Running(w)' => worker'[w].job \in Jobs
  BY <1>2 DEF Running, PoolOK
<1>4. \A j \in Held' : j.token < token'
  <2>1. ASSUME NEW j \in Held
        PROVE  j.token < token'
    <3>1. j \in Jobs
      BY DEF Held, Queued, InHand, PoolOK
    <3>2. j.token \in Nat
      BY <3>1 DEF Jobs
    <3>. QED BY <3>2 DEF PoolOK
  <2>. QED BY <1>1, <2>1
<1>5. stopFlag' = (ui' = "joining")
  BY DEF Post, PoolOK
<1>6. \A w \in Workers : worker'[w].pc # "exit"
  BY <1>2 DEF PoolOK
<1>7. PoolOK'
  BY <1>1, <1>3, <1>4, <1>5, <1>6 DEF PoolOK
<1>8. \A w \in Workers : HasFound(w)' => worker'[w] = worker[w]
  BY <1>2 DEF HasFound
<1>9. FoundOK'
  BY <1>8 DEF FoundOK, HasFound
<1>. QED BY <1>1, <1>7, <1>8, <1>9

\* A worker that goes on with its job.
LEMMA JobGoesOn ==
  ASSUME PoolOK, FoundOK, NEW w \in Workers, NEW got,
         NEW pc \in {"taken", "scanned", "checked", "published"},
         Moved(w, pc, worker[w].job, got), Running(w),
         ThreadFound(worker'[w]),
         UNCHANGED <<jobs, token, stopFlag, ui>>
  PROVE  PoolOK' /\ FoundOK' /\ Held' = Held
<1>1. Held' = Held
  BY GoesOn
<1>2. \A v \in Workers : Running(v)' => worker'[v].job \in Jobs
  BY DEF Moved, Running, PoolOK
<1>3. \A v \in Workers : worker'[v].pc = "exit" => worker[v].pc = "exit"
  BY DEF Moved
<1>4. PoolOK'
  BY <1>1, <1>2, <1>3 DEF PoolOK, Moved
<1>5. FoundOK'
  BY FoundByThread DEF FoundOK, ThreadFound, HasFound, Moved
<1>. QED BY <1>1, <1>4, <1>5

\* A worker that has no job or whose job returns; it leaves only when the queue is empty.
LEMMA WorkerIdles ==
  ASSUME PoolOK, FoundOK, NEW w \in Workers, NEW pc \in {"wait", "ready", "notify", "exit"},
         NEW job, NEW got, Moved(w, pc, job, got),
         pc = "exit" => ui \in {"joining", "gone"} /\ jobs = <<>>,
         UNCHANGED <<jobs, token, stopFlag, ui>>
  PROVE  /\ PoolOK' /\ FoundOK'
         /\ ~Running(w) => Held' = Held
         /\ Held' \subseteq Held /\ Held \subseteq Held' \cup {worker[w].job}
<1>1. /\ ~Running(w) => Held' = Held
      /\ Held' \subseteq Held /\ Held \subseteq Held' \cup {worker[w].job}
  BY IdleMoves
<1>2. \A v \in Workers : Running(v)' => worker'[v] = worker[v]
  BY DEF Moved, Running
<1>3. \A v \in Workers : worker'[v].pc = "exit" =>
        worker[v].pc = "exit" \/ (ui \in {"joining", "gone"} /\ jobs = <<>>)
  BY DEF Moved
<1>4. PoolOK'
  BY <1>1, <1>2, <1>3 DEF PoolOK, Moved, Running
<1>5. FoundOK'
  BY DEF FoundOK, HasFound, Moved
<1>. QED BY <1>1, <1>4, <1>5

\* A step that has nothing to do with source control leaves its promise alone.
Scm == {"refresh", "diff"}
LEMMA ScmStays ==
  ASSUME RefreshOK, DiffOK, UNCHANGED scmVars,
         \A j \in Held' : j.svc \in Scm => j \in Held,
         \A j \in Held : j.svc \in Scm => j \in Held',
         \A w \in Workers : HasFound(w)' /\ worker'[w].job.svc = "refresh" =>
                              worker'[w] = worker[w]
  PROVE  RefreshOK' /\ DiffOK'
<1>1. RefreshOK'
  <2>1. \A j \in Held' : j.svc = "refresh" /\ j.token = refreshToken' => j.root = scmRoot'
    BY DEF RefreshOK, scmVars, Scm
  <2>2. \A w \in Workers :
          HasFound(w)' /\ worker'[w].job.svc = "refresh" /\ worker'[w].job.token = refreshToken'
            => worker'[w].got.tree >= asked'
    BY DEF RefreshOK, scmVars, HasFound
  <2>3. SnapshotFresh' \/ Pending("refresh", refreshToken)'
    BY DEF RefreshOK, scmVars, SnapshotFresh, Pending, Scm
  <2>. QED BY <2>1, <2>2, <2>3 DEF RefreshOK
<1>2. DiffOK'
  BY DEF DiffOK, DiffIsOfLast, DiffFresh, Pending, scmVars, Scm
<1>. QED BY <1>1, <1>2

-------------------------------------------------------------------------------
(* The steps of the UI, the user and the other programs that post nothing.  *)

LEMMA QuietSteps ==
  ASSUME IInv,
         \/ EditFiles \/ Poll(TRUE) \/ Poll(FALSE) \/ RefreshTurn \/ PickerKey \/ ViewKey
         \/ ReadIndexVersion \/ QuitKey
  PROVE  IInv'
<1> USE DEF IInv
<1>1. UNCHANGED <<jobs, worker, token, stopFlag>>
  BY DEF EditFiles, Poll, RefreshTurn, PickerKey, ViewKey, ReadIndexVersion, QuitKey, poolVars,
         queueVars
<1>2. ui' = ui \/ (ui \notin {"joining", "gone"} /\ ui' \notin {"joining", "gone"})
  BY DEF EditFiles, Poll, RefreshTurn, PickerKey, ViewKey, ReadIndexVersion, QuitKey, Key, Input,
         uiVars
<1>3. PoolOK' /\ FoundOK' /\ Held' = Held
  BY <1>1, <1>2, NothingPosted
<1>4. /\ UNCHANGED <<projectPath, fsEntries, dirShown, indexRoot, files, searchRoot>>
      /\ UNCHANGED <<scmRoot, snapshot, refreshToken, diffs, diffToken, diffPath, diffLines, asked>>
      /\ tree' \in {tree, tree + 1}
  BY DEF EditFiles, Poll, RefreshTurn, PickerKey, ViewKey, ReadIndexVersion, QuitKey, ServicesOK,
         FilesChange, ReadVersion, OpenPicker, ClosePicker, indexCore, searchVars, engineVars,
         dirVars, scannerVars, indexVars, scmVars, diskVars
<1>5. active' \in [path : Paths, lines : Lines]
  BY DEF EditFiles, Poll, RefreshTurn, PickerKey, ViewKey, ReadIndexVersion, QuitKey, ServicesOK,
         scmVars
<1>6. ServicesOK'
  BY <1>1, <1>4, <1>5 DEF ServicesOK
<1>7. ListingsOfThisRoot'
  BY <1>4 DEF ListingsOfThisRoot
<1>8. RefreshOK'
  BY <1>1, <1>3, <1>4 DEF RefreshOK, SnapshotFresh, Pending, HasFound
<1>9. DiffOK'
  BY <1>3, <1>4 DEF DiffOK, DiffIsOfLast, DiffFresh, Pending
<1>. QED BY <1>3, <1>6, <1>7, <1>8, <1>9

\* The end of the UI.
LEMMA EndSteps ==
  ASSUME IInv, StopPool \/ Destroy
  PROVE  IInv'
<1> USE DEF IInv
<1>1. /\ UNCHANGED <<searchVars, dirVars, indexVars, scmVars, token, tree>>
      /\ ui' \in {"joining", "gone"}
  BY DEF StopPool, Destroy, Stop, Joined, wakeVars, diskVars
<1>2. /\ PoolOK' /\ Held' = Held
      /\ \A w \in Workers : HasFound(w)' => worker'[w] = worker[w]
  <2>1. CASE StopPool
    <3>1. \A w \in Workers :
            /\ worker[w].pc = "wait" => worker'[w] = [worker[w] EXCEPT !.pc = "ready"]
            /\ worker[w].pc # "wait" => worker'[w] = worker[w]
      BY <2>1 DEF StopPool, Stop, Asleep
    <3>2. ASSUME NEW w \in Workers
          PROVE  /\ worker'[w] \in Threads /\ worker'[w].job = worker[w].job
                 /\ \/ worker'[w] = worker[w]
                    \/ worker[w].pc = "wait" /\ worker'[w].pc = "ready"
      <4>1. worker[w] \in Threads
        BY DEF PoolOK
      <4>2. CASE worker[w].pc = "wait"
        <5> DEFINE t == [worker[w] EXCEPT !.pc = "ready"]
        <5>1. t \in Threads /\ t.job = worker[w].job /\ t.pc = "ready"
          BY <4>1 DEF Threads, Pcs
        <5>2. worker'[w] = t
          BY <3>1, <4>2
        <5>. QED BY <4>2, <5>1, <5>2
      <4>3. CASE worker[w].pc # "wait"
        <5>1. worker'[w] = worker[w]
          BY <3>1, <4>3
        <5>. QED BY <4>1, <5>1
      <4>. QED BY <4>2, <4>3
    <3>3. worker' \in [Workers -> Threads]
      <4>1. worker' = [w \in Workers |-> worker'[w]]
        BY <2>1 DEF StopPool, Stop
      <4>. QED BY <3>2, <4>1
    <3>4. \A w \in Workers : Running(w)' = Running(w) /\ worker'[w].job = worker[w].job
      BY <3>2 DEF Running
    <3>5. Held' = Held
      BY <2>1, <3>4 DEF StopPool, Stop, Held, Queued, InHand
    <3>6. \A w \in Workers : worker'[w].pc # "exit"
      BY <2>1, <3>2 DEF StopPool, PoolOK
    <3>7. PoolOK'
      BY <2>1, <3>3, <3>4, <3>5, <3>6 DEF StopPool, Stop, PoolOK
    <3>. QED BY <3>2, <3>5, <3>7 DEF HasFound
  <2>2. CASE Destroy
    <3>1. jobs = <<>>
      BY <2>2, WorkersAssumption DEF Destroy, Joined, PoolOK
    <3>2. UNCHANGED <<jobs, worker>> /\ stopFlag' = FALSE /\ ui' = "gone"
      BY <2>2, <3>1 DEF Destroy, Joined
    <3>3. Held' = Held /\ \A w \in Workers : Running(w)' = Running(w)
      BY <3>2 DEF Held, Queued, InHand, Running
    <3>4. PoolOK'
      BY <1>1, <3>1, <3>2, <3>3 DEF PoolOK
    <3>. QED BY <3>2, <3>3, <3>4
  <2>. QED BY <2>1, <2>2
<1>3. FoundOK'
  BY <1>2 DEF FoundOK, HasFound
<1>4. ServicesOK' /\ ListingsOfThisRoot'
  BY <1>1 DEF ServicesOK, ListingsOfThisRoot, searchVars, engineVars, dirVars, scannerVars,
              indexVars, indexCore, scmVars
<1>5. RefreshOK' /\ DiffOK'
  BY <1>1, <1>2, ScmStays
<1>. QED BY <1>2, <1>3, <1>4, <1>5

-------------------------------------------------------------------------------
(* The steps of the UI that post.                                          *)

\* The jobs that are posted are jobs.
LEMMA JobsPosted ==
  ASSUME NEW root \in Roots, NEW t \in Nat
  PROVE  /\ DirJob(root, t) \in Jobs /\ IndexJob(root, t) \in Jobs /\ RefreshJob(root, t) \in Jobs
         /\ DirJob(root, t).svc = "dirs" /\ DirJob(root, t).token = t
         /\ IndexJob(root, t).svc = "index" /\ IndexJob(root, t).token = t
         /\ RefreshJob(root, t).svc = "refresh" /\ RefreshJob(root, t).token = t
         /\ RefreshJob(root, t).root = root
  BY DEF DirJob, IndexJob, RefreshJob, Jobs

\* Jobs that are of other services, posted by a step that leaves source control alone.
LEMMA OthersPosted ==
  ASSUME IInv, NEW js \in Seq(Jobs), Post(js),
         token' \in Nat, token <= token', \A k \in 1 .. Len(js) : js[k].token < token',
         \A k \in 1 .. Len(js) : js[k].svc \notin Scm,
         ui \notin {"joining", "gone"}, ui' \notin {"joining", "gone"},
         UNCHANGED scmVars
  PROVE  PoolOK' /\ FoundOK' /\ RefreshOK' /\ DiffOK'
<1>1. /\ PoolOK' /\ FoundOK'
      /\ Held' = Held \cup {js[k] : k \in 1 .. Len(js)}
      /\ \A w \in Workers : HasFound(w)' => worker'[w] = worker[w]
  BY SomePosted DEF IInv
<1>2. RefreshOK' /\ DiffOK'
  BY <1>1, ScmStays DEF IInv
<1>. QED BY <1>1, <1>2

LEMMA SearchKeySafe ==
  ASSUME IInv, SearchKey
  PROVE  IInv'
<1> USE DEF IInv
<1>1. PICK q \in Queries \cup {NoQuery} : RunSearch(q)
  BY DEF SearchKey
<1>2. CASE q = NoQuery
  <2>1. UNCHANGED poolVars
    BY <1>1, <1>2 DEF RunSearch
  <2>2. PoolOK' /\ FoundOK' /\ Held' = Held
    BY <2>1, NothingPosted DEF SearchKey, Key, Input, poolVars
  <2>3. RefreshOK' /\ DiffOK'
    BY <2>1, <2>2, ScmStays DEF SearchKey, HasFound, poolVars
  <2>. QED BY <1>1, <2>1, <2>2, <2>3 DEF SearchKey, RunSearch, ServicesOK, ListingsOfThisRoot,
            dirVars, scannerVars, indexVars, indexCore, scmVars, diskVars, poolVars
<1>3. CASE q # NoQuery
  <2>1. Post(<<SearchJob(q, token)>>) /\ token' = token + 1
    BY <1>1, <1>3 DEF RunSearch
  <2>2. SearchJob(q, token) \in Jobs /\ SearchJob(q, token).svc = "search"
        /\ SearchJob(q, token).token = token
    BY <1>3 DEF SearchJob, Jobs, PoolOK, ServicesOK
  <2> DEFINE js == <<SearchJob(q, token)>>
  <2>3. /\ js \in Seq(Jobs)
        /\ \A k \in 1 .. Len(js) : js[k].svc \notin Scm /\ js[k].token < token + 1
    BY <2>2 DEF Scm, PoolOK
  <2>4. ui = "input" /\ ui' = "poll" /\ UNCHANGED scmVars /\ token \in Nat
    BY DEF SearchKey, Key, Input, PoolOK
  <2>0. Post(js)
    BY <2>1
  <2> HIDE DEF js
  <2>5. PoolOK' /\ FoundOK' /\ RefreshOK' /\ DiffOK'
    BY <2>0, <2>1, <2>3, <2>4, OthersPosted
  <2>6. ServicesOK'
    BY <1>1, <2>1, <2>4 DEF SearchKey, RunSearch, ServicesOK, dirVars, scannerVars, indexVars,
                            indexCore, scmVars, diskVars
  <2>7. ListingsOfThisRoot'
    BY DEF SearchKey, ListingsOfThisRoot, dirVars, scannerVars, indexVars, indexCore
  <2>. QED BY <2>5, <2>6, <2>7
<1>. QED BY <1>2, <1>3

LEMMA FileKeySafe ==
  ASSUME IInv, FileKey
  PROVE  IInv'
<1> USE DEF IInv
<1> DEFINE js == <<IndexJob(indexRoot, token)>>
<1>1. token \in Nat /\ indexRoot \in Roots
  BY DEF PoolOK, ServicesOK
<1>2. /\ js \in Seq(Jobs)
      /\ \A k \in 1 .. Len(js) : js[k].svc \notin Scm /\ js[k].token < token + 1
  BY <1>1, JobsPosted DEF Scm
<1>3. /\ Post(js) /\ token' = token + 1
      /\ ui = "input" /\ ui' = "posted" /\ UNCHANGED scmVars
  BY DEF FileKey, Key, Input
<1> HIDE DEF js
<1>4. PoolOK' /\ FoundOK' /\ RefreshOK' /\ DiffOK'
  BY <1>1, <1>2, <1>3, OthersPosted
<1>5. ServicesOK'
  BY <1>1 DEF FileKey, ServicesOK, FilesChange, ScanDirs, Reindex, scmVars, searchVars, engineVars
<1>6. ListingsOfThisRoot'
  BY DEF FileKey, ListingsOfThisRoot, ScanDirs, Listing, Reindex, pickerVars
<1>. QED BY <1>4, <1>5, <1>6

LEMMA RefreshExplorerSafe ==
  ASSUME IInv, RefreshExplorer
  PROVE  IInv'
<1> USE DEF IInv
<1> DEFINE js == <<DirJob(projectPath, token), IndexJob(indexRoot, token + 1)>>
<1>1. token \in Nat /\ projectPath \in Roots /\ indexRoot \in Roots
  BY DEF PoolOK, ServicesOK
<1>2. /\ js \in Seq(Jobs)
      /\ \A k \in 1 .. Len(js) : js[k].svc \notin Scm /\ js[k].token < token + 2
  BY <1>1, JobsPosted DEF Scm
<1>3. Post(js) /\ token' = token + 2
  BY DEF RefreshExplorer
<1>. HIDE DEF js
<1>4. PoolOK' /\ FoundOK' /\ RefreshOK' /\ DiffOK'
  BY <1>1, <1>2, <1>3, OthersPosted DEF RefreshExplorer
<1>5. ServicesOK'
  BY <1>1, <1>3 DEF RefreshExplorer, ServicesOK, RefreshSidebar, Reindex, scmVars, searchVars,
                    engineVars
<1>6. ListingsOfThisRoot'
  BY DEF RefreshExplorer, ListingsOfThisRoot, RefreshSidebar, Reindex, pickerVars
<1>. QED BY <1>4, <1>5, <1>6

\* A job of the pool that is not new is older than the tokens that are handed out now.
LEMMA HeldIsOlder ==
  ASSUME PoolOK, NEW j \in Held
  PROVE  j \in Jobs /\ j.token < token /\ j.token \in Nat
<1>1. j \in Jobs
  BY DEF Held, Queued, InHand, PoolOK
<1>2. j.token \in Nat
  BY <1>1 DEF Jobs
<1>. QED BY <1>1, <1>2 DEF PoolOK

\* A new request for a refresh, with the last token t: only its own jobs carry it.
LEMMA RefreshPosted ==
  ASSUME PoolOK, NEW js \in Seq(Jobs), NEW t \in Nat, token <= t,
         Held' = Held \cup {js[k] : k \in 1 .. Len(js)},
         \A w \in Workers : HasFound(w)' => worker'[w] = worker[w],
         refreshToken' = t,
         \A k \in 1 .. Len(js) : js[k].svc = "refresh" => js[k].root = scmRoot',
         \E k \in 1 .. Len(js) : js[k].svc = "refresh" /\ js[k].token = t
  PROVE  RefreshOK'
<1>1. \A j \in Held : j.token # t
  BY HeldIsOlder DEF PoolOK
<1>2. \A j \in Held' : j.svc = "refresh" /\ j.token = t => j.root = scmRoot'
  BY <1>1
<1>3. \A w \in Workers : HasFound(w)' => worker'[w].job.token # t
  BY <1>1 DEF HasFound, Running, Held, InHand
<1>4. Pending("refresh", t)'
  BY DEF Pending
<1>. QED BY <1>2, <1>3, <1>4 DEF RefreshOK, Pending

\* A step that asks for no diff, or forgets what was asked, leaves the diffs' promise alone.
LEMMA DiffStays ==
  ASSUME DiffOK, NEW js \in Seq(Jobs),
         Held' = Held \cup {js[k] : k \in 1 .. Len(js)},
         \A k \in 1 .. Len(js) : js[k].svc # "diff",
         \/ diffPath' = NoPath
         \/ UNCHANGED <<diffs, diffToken, diffPath, diffLines, scmRoot>>
  PROVE  DiffOK'
  BY DEF DiffOK, DiffIsOfLast, DiffFresh, Pending

LEMMA SaveKeySafe ==
  ASSUME IInv, SaveKey
  PROVE  IInv'
<1> USE DEF IInv
<1> DEFINE js == <<RefreshJob(scmRoot, token)>>
<1>1. token \in Nat /\ scmRoot \in Roots /\ tree \in Nat
  BY DEF PoolOK, ServicesOK
<1>2. /\ js \in Seq(Jobs)
      /\ \A k \in 1 .. Len(js) :
           js[k].svc = "refresh" /\ js[k].token < token + 1 /\ js[k].root = scmRoot
      /\ \E k \in 1 .. Len(js) : js[k].svc = "refresh" /\ js[k].token = token
  <2>1. js[1].svc = "refresh" /\ js[1].token = token /\ js[1].root = scmRoot /\ js[1] \in Jobs
    BY <1>1, JobsPosted
  <2>2. Len(js) = 1 /\ js \in Seq(Jobs)
    BY <2>1
  <2>. QED BY <1>1, <2>1, <2>2
<1>3. /\ Post(js) /\ token' = token + 1
      /\ ui = "input" /\ ui' = "poll"
      /\ refreshToken' = token /\ asked' = tree + 1 /\ tree' = tree + 1
      /\ UNCHANGED <<searchVars, dirVars, indexVars, scmRoot, snapshot, diffs, diffToken,
                     active, diffPath, diffLines>>
  BY DEF SaveKey, Key, Input, FilesChange, RequestRefresh
<1> HIDE DEF js
<1>4. /\ PoolOK' /\ FoundOK'
      /\ Held' = Held \cup {js[k] : k \in 1 .. Len(js)}
      /\ \A w \in Workers : HasFound(w)' => worker'[w] = worker[w]
  <2>1. /\ PoolOK /\ FoundOK /\ token' \in Nat /\ token <= token'
        /\ \A k \in 1 .. Len(js) : js[k].token < token'
        /\ ui \notin {"joining", "gone"} /\ ui' \notin {"joining", "gone"}
    BY <1>1, <1>2, <1>3
  <2>. QED BY <1>2, <1>3, <2>1, SomePosted
<1>5. RefreshOK'
  <2>1. refreshToken' = token /\ \A k \in 1 .. Len(js) : js[k].root = scmRoot'
    BY <1>2, <1>3
  <2>. QED BY <1>1, <1>2, <1>4, <2>1, RefreshPosted
<1>6. DiffOK'
  BY <1>2, <1>3, <1>4, DiffStays
<1>7. ServicesOK' /\ ListingsOfThisRoot'
  BY <1>1, <1>3 DEF ServicesOK, ListingsOfThisRoot, searchVars, engineVars, dirVars, scannerVars,
                    indexVars, indexCore
<1>. QED BY <1>4, <1>5, <1>6, <1>7

LEMMA TurnSafe ==
  ASSUME IInv, Turn
  PROVE  IInv'
<1> USE DEF IInv
<1>1. /\ ui = "turn" /\ ui' \in {"input", "poll"}
      /\ UNCHANGED <<projectPath, fsEntries, searchRoot, indexRoot, files, tree>>
      /\ dirShown' \in {fsEntries, dirShown}
  BY DEF Turn, ShowPanels, PollPicker, SyncResults, SyncCache, indexCore, engineVars, scannerVars
<1>2. ListingsOfThisRoot'
  BY <1>1 DEF ListingsOfThisRoot
<1>3. CASE UNCHANGED <<scmVars, poolVars>>
  <2>1. PoolOK' /\ FoundOK' /\ Held' = Held
    BY <1>1, <1>3, NothingPosted DEF poolVars
  <2>2. RefreshOK' /\ DiffOK'
    BY <1>3, <2>1, ScmStays DEF poolVars
  <2>3. ServicesOK'
    BY <1>1, <1>3 DEF ServicesOK, scmVars, poolVars
  <2>. QED BY <1>2, <2>1, <2>2, <2>3
<1>4. CASE ~DiffIsAsked /\ SyncScmDiff
  <2> DEFINE js == <<DiffJob(token)>>
  <2>1. token \in Nat /\ active \in [path : Paths, lines : Lines] /\ scmRoot \in Roots
    BY DEF PoolOK, ServicesOK
  <2>2. /\ DiffJob(token) \in Jobs
        /\ DiffJob(token).svc = "diff" /\ DiffJob(token).token = token
        /\ DiffJob(token).root = scmRoot' /\ DiffJob(token).path = diffPath'
        /\ DiffJob(token).lines = diffLines'
    BY <1>4, <2>1 DEF SyncScmDiff, DiffJob, Jobs
  <2>3. /\ js \in Seq(Jobs) /\ Len(js) = 1 /\ js[1] = DiffJob(token)
    BY <2>2
  <2>4. /\ Post(js) /\ token' = token + 1 /\ diffToken' = token
        /\ UNCHANGED <<scmRoot, snapshot, refreshToken, diffs, active, asked>>
        /\ diffPath' = active.path /\ diffLines' = active.lines
    BY <1>4 DEF SyncScmDiff
  <2> HIDE DEF js
  <2>5. /\ PoolOK' /\ FoundOK'
        /\ Held' = Held \cup {js[k] : k \in 1 .. Len(js)}
        /\ \A w \in Workers : HasFound(w)' => worker'[w] = worker[w]
    <3>1. /\ PoolOK /\ FoundOK /\ token' \in Nat /\ token <= token'
          /\ \A k \in 1 .. Len(js) : js[k].token < token'
          /\ ui \notin {"joining", "gone"} /\ ui' \notin {"joining", "gone"}
      BY <1>1, <2>1, <2>2, <2>3, <2>4
    <3>. QED BY <2>3, <2>4, <3>1, SomePosted
  <2>6. Held' = Held \cup {DiffJob(token)}
    BY <2>3, <2>5
  <2>7. RefreshOK'
    BY <2>2, <2>4, <2>5, <2>6 DEF RefreshOK, SnapshotFresh, Pending, HasFound
  <2>8. DiffOK'
    <3>1. \A j \in Held : j.token # token
      BY <2>1, HeldIsOlder
    <3>2. \A j \in Held' : j.svc = "diff" /\ j.token = token => j = DiffJob(token)
      BY <2>6, <3>1
    <3>3. Pending("diff", diffToken)'
      BY <2>2, <2>4, <2>6 DEF Pending
    <3>. QED BY <2>2, <2>4, <3>2, <3>3 DEF DiffOK, DiffIsOfLast
  <2>9. ServicesOK'
    BY <1>1, <2>1, <2>4 DEF ServicesOK
  <2>. QED BY <1>2, <2>5, <2>7, <2>8, <2>9
<1>5. UNCHANGED <<scmVars, poolVars>> \/ (~DiffIsAsked /\ SyncScmDiff)
  BY DEF Turn, ShowPanels, SyncScmDiff
<1>. QED BY <1>3, <1>4, <1>5

LEMMA OpenWorkspaceSafe ==
  ASSUME IInv, OpenWorkspace
  PROVE  IInv'
<1> USE DEF IInv
<1>1. token \in Nat /\ tree \in Nat
  BY DEF PoolOK, ServicesOK
<1>2. PICK root \in Roots :
        LET index == IF indexRoot # root
                     THEN <<IndexJob(root, token + 1), IndexJob(root, token + 2)>>
                     ELSE <<IndexJob(root, token + 1)>>
            t == token + 1 + Len(index)
            scm == IF scmRoot # root
                   THEN <<RefreshJob(root, t), RefreshJob(root, t + 1)>>
                   ELSE <<RefreshJob(root, t)>>
            last == t + Len(scm)
        IN  /\ SetProjectPath(root, token)
            /\ searchRoot' = root
            /\ WarmAndReindex(root, t - 1)
            /\ RefreshScm(root, last - 1, tree)
            /\ token' = last
            /\ Post(<<DirJob(root, token)>> \o index \o scm)
  BY DEF OpenWorkspace
<1> DEFINE index == IF indexRoot # root
                    THEN <<IndexJob(root, token + 1), IndexJob(root, token + 2)>>
                    ELSE <<IndexJob(root, token + 1)>>
           t == token + 1 + Len(index)
           scm == IF scmRoot # root
                  THEN <<RefreshJob(root, t), RefreshJob(root, t + 1)>>
                  ELSE <<RefreshJob(root, t)>>
           last == t + Len(scm)
           dir == DirJob(root, token)
           js == <<dir>> \o index \o scm
<1>3. /\ SetProjectPath(root, token) /\ searchRoot' = root
      /\ indexRoot' = root /\ ((indexRoot = root /\ files' = files) \/ files' = NoFiles)
      /\ RefreshScm(root, last - 1, tree)
      /\ token' = last
      /\ Post(js)
  BY <1>2 DEF WarmAndReindex
<1>4. /\ index \in Seq(Jobs) /\ Len(index) \in {1, 2}
      /\ \A k \in 1 .. Len(index) : index[k].svc = "index" /\ index[k].token < t
  BY <1>1, JobsPosted
<1>5. t \in Nat /\ token + 1 < t
  BY <1>1, <1>4
<1>6. /\ scm \in Seq(Jobs) /\ Len(scm) \in {1, 2}
      /\ \A k \in 1 .. Len(scm) :
           scm[k].svc = "refresh" /\ scm[k].token < last /\ scm[k].root = root
      /\ scm[Len(scm)].token = last - 1
  <2> HIDE DEF t
  <2>. QED BY <1>5, JobsPosted
<1>7. last \in Nat /\ t < last
  BY <1>5, <1>6
<1>8. dir \in Jobs /\ dir.svc = "dirs" /\ dir.token < last
  <2> HIDE DEF last
  <2>. QED BY <1>1, <1>5, <1>7, JobsPosted
<1> HIDE DEF index, scm, t, last, dir
<1>9. /\ js \in Seq(Jobs) /\ Len(js) = 1 + Len(index) + Len(scm)
      /\ js[1] = dir
      /\ \A k \in 1 .. Len(index) : js[k + 1] = index[k]
      /\ \A k \in 1 .. Len(scm) : js[k + 1 + Len(index)] = scm[k]
  BY <1>4, <1>6, <1>8
<1>10. ASSUME NEW k \in 1 .. Len(js)
       PROVE  /\ js[k].token < last
              /\ js[k].svc = "refresh" => js[k].root = root
              /\ js[k].svc # "diff"
  <2> HIDE DEF js
  <2>1. CASE k = 1
    BY <1>8, <1>9, <2>1
  <2>2. CASE k - 1 \in 1 .. Len(index)
    <3>1. js[k] = index[k - 1]
      BY <1>9, <2>2
    <3>2. index[k - 1].token \in Nat
      BY <1>4, <2>2 DEF Jobs
    <3>. QED BY <1>4, <1>5, <1>7, <2>2, <3>1, <3>2
  <2>3. CASE k - 1 - Len(index) \in 1 .. Len(scm)
    <3>1. js[k] = scm[k - 1 - Len(index)]
      BY <1>4, <1>9, <2>3
    <3>. QED BY <1>6, <2>3, <3>1
  <2>. QED BY <1>4, <1>6, <1>9, <2>1, <2>2, <2>3
<1>11. \E k \in 1 .. Len(js) : js[k].svc = "refresh" /\ js[k].token = last - 1
  <2> HIDE DEF js
  <2>1. Len(scm) \in 1 .. Len(scm)
    BY <1>6
  <2>2. 1 + Len(index) + Len(scm) \in 1 .. Len(js)
        /\ js[1 + Len(index) + Len(scm)] = scm[Len(scm)]
    BY <1>4, <1>6, <1>9, <2>1
  <2>. QED BY <1>6, <2>1, <2>2
<1> HIDE DEF js
<1>12. ui = "input" /\ ui' = "posted" /\ tree' = tree /\ active' = active
  BY <1>3 DEF OpenWorkspace, Key, Input, diskVars, RefreshScm
<1>13. /\ PoolOK' /\ FoundOK'
       /\ Held' = Held \cup {js[k] : k \in 1 .. Len(js)}
       /\ \A w \in Workers : HasFound(w)' => worker'[w] = worker[w]
  <2>1. /\ PoolOK /\ FoundOK /\ token' \in Nat /\ token <= token'
        /\ \A k \in 1 .. Len(js) : js[k].token < token'
        /\ ui \notin {"joining", "gone"} /\ ui' \notin {"joining", "gone"}
    BY <1>1, <1>3, <1>5, <1>7, <1>10, <1>12
  <2>. QED BY <1>3, <1>9, <2>1, SomePosted
<1>14. /\ scmRoot' = root /\ refreshToken' = last - 1 /\ asked' = tree /\ diffPath' = NoPath
       /\ diffToken' = diffToken
       /\ diffs' \in {diffs, [p \in Paths |-> NoDiff]}
  BY <1>3 DEF RefreshScm, RequestRefresh
<1>15. RefreshOK'
  <2>1. last - 1 \in Nat /\ token <= last - 1
    BY <1>1, <1>5, <1>7
  <2>2. \A k \in 1 .. Len(js) : js[k].svc = "refresh" => js[k].root = scmRoot'
    BY <1>10, <1>14
  <2>. QED BY <1>9, <1>11, <1>13, <1>14, <2>1, <2>2, RefreshPosted
<1>16. DiffOK'
  BY <1>14 DEF DiffOK
<1>17. ServicesOK'
  BY <1>1, <1>3, <1>5, <1>7, <1>12, <1>14 DEF ServicesOK, SetProjectPath
<1>18. ListingsOfThisRoot'
  BY <1>3 DEF ListingsOfThisRoot, SetProjectPath
<1>. QED BY <1>13, <1>15, <1>16, <1>17, <1>18

-------------------------------------------------------------------------------
(* The steps of the workers.                                               *)

LEMMA PoolStepSafe ==
  ASSUME IInv, NEW w \in Workers, PoolStep(w), UNCHANGED <<ui, tree>>,
         UNCHANGED <<searchVars, dirVars, indexVars, scmVars>>
  PROVE  IInv'
<1> USE DEF IInv
<1>1. worker \in [Workers -> Threads] /\ jobs \in Seq(Jobs) /\ UNCHANGED <<token, stopFlag>>
  BY DEF PoolOK, PoolStep, Take, Sleep, Exit, Notify, queueVars
<1>2. /\ PoolOK' /\ FoundOK' /\ Held' = Held
      /\ \A v \in Workers : HasFound(v)' => worker'[v] = worker[v]
  <2>1. CASE Take(w)
    <3>1. /\ jobs' \in Seq(Jobs) /\ Held' = Held /\ Head(jobs) \in Jobs /\ jobs # <<>>
          /\ Moved(w, "taken", Head(jobs), worker[w].got)
      BY <1>1, <2>1, TakeHolds DEF Take
    <3>2. \A v \in Workers : Running(v)' => worker'[v].job \in Jobs
      BY <3>1 DEF Moved, Running, PoolOK
    <3>3. \A v \in Workers : worker'[v].pc # "exit"
      BY <3>1 DEF Moved, PoolOK
    <3>4. PoolOK'
      BY <1>1, <3>1, <3>2, <3>3 DEF PoolOK, Moved
    <3>5. \A v \in Workers : HasFound(v)' => worker'[v] = worker[v]
      BY <3>1 DEF Moved, HasFound
    <3>. QED BY <3>1, <3>4, <3>5 DEF FoundOK, HasFound
  <2>2. ASSUME NEW pc \in {"wait", "ready", "exit"}, Goto(w, pc), ~Running(w), UNCHANGED jobs,
               pc = "exit" => ui = "joining" /\ jobs = <<>>
        PROVE  /\ PoolOK' /\ FoundOK' /\ Held' = Held
               /\ \A v \in Workers : HasFound(v)' => worker'[v] = worker[v]
    <3>1. Moved(w, pc, worker[w].job, worker[w].got)
      BY <1>1, <2>2, GotoMoves DEF Pcs
    <3>2. PoolOK' /\ FoundOK' /\ Held' = Held
      BY <1>1, <2>2, <3>1, WorkerIdles
    <3>. QED BY <3>1, <3>2 DEF Moved, HasFound
  <2>3. CASE Sleep(w)
    BY <2>2, <2>3 DEF Sleep, Running, queueVars
  <2>4. CASE Exit(w)
    BY <2>2, <2>4 DEF Exit, Running, queueVars, PoolOK
  <2>5. CASE Notify(w)
    BY <2>2, <2>5 DEF Notify, Running, queueVars
  <2>. QED BY <2>1, <2>3, <2>4, <2>5 DEF PoolStep
<1>3. RefreshOK' /\ DiffOK'
  BY <1>2, ScmStays
<1>4. ServicesOK' /\ ListingsOfThisRoot'
  BY <1>1 DEF ServicesOK, ListingsOfThisRoot, searchVars, engineVars, dirVars, scannerVars,
              indexVars, indexCore, scmVars
<1>. QED BY <1>2, <1>3, <1>4

\* A job goes on or returns: what it found is of its job's workspace.
Works(w) ==
  \/ \E got \in Gots :
       /\ Scanned(w, got)
       /\ worker[w].job.svc \in {"dirs", "index", "refresh"} =>
            got \in Listings /\ got.root = worker[w].job.root
       /\ worker[w].job.svc = "diff" =>
            got \in FileDiffs /\ got.root = worker[w].job.root /\ got.lines = worker[w].job.lines
  \/ worker[w].pc = "scanned" /\ Goto(w, "checked")
  \/ Goto(w, "published")
  \/ Return(w)

LEMMA JobWorks ==
  ASSUME PoolOK, FoundOK, NEW w \in Workers, Running(w), Works(w),
         UNCHANGED <<jobs, token, stopFlag, ui>>
  PROVE  /\ PoolOK' /\ FoundOK'
         /\ Held' \subseteq Held /\ Held \subseteq Held' \cup {worker[w].job}
         /\ ~Return(w) => Held' = Held
         /\ \A v \in Workers : v # w => worker'[v] = worker[v]
<1>1. worker \in [Workers -> Threads]
  BY DEF PoolOK
<1>2. ASSUME NEW got \in Gots, Scanned(w, got),
             worker[w].job.svc \in {"dirs", "index", "refresh"} =>
               got \in Listings /\ got.root = worker[w].job.root,
             worker[w].job.svc = "diff" =>
               got \in FileDiffs /\ got.root = worker[w].job.root /\ got.lines = worker[w].job.lines
      PROVE  /\ PoolOK' /\ FoundOK' /\ Held' = Held
             /\ \A v \in Workers : v # w => worker'[v] = worker[v]
  <2>1. Moved(w, "scanned", worker[w].job, got)
    BY <1>1, <1>2, ScannedMoves
  <2>2. ThreadFound(worker'[w])
    BY <1>2, <2>1 DEF ThreadFound, Moved
  <2>3. PoolOK' /\ FoundOK' /\ Held' = Held
    BY <2>1, <2>2, JobGoesOn
  <2>. QED BY <2>1, <2>3 DEF Moved
<1>3. ASSUME NEW pc \in {"checked", "published"}, Goto(w, pc),
             pc = "checked" => worker[w].pc = "scanned"
      PROVE  /\ PoolOK' /\ FoundOK' /\ Held' = Held
             /\ \A v \in Workers : v # w => worker'[v] = worker[v]
  <2>1. Moved(w, pc, worker[w].job, worker[w].got)
    BY <1>1, <1>3, GotoMoves DEF Pcs
  <2>2. ThreadFound(worker'[w])
    BY <1>3, <2>1 DEF ThreadFound, Moved, FoundOK, HasFound
  <2>3. PoolOK' /\ FoundOK' /\ Held' = Held
    BY <2>1, <2>2, JobGoesOn
  <2>. QED BY <2>1, <2>3 DEF Moved
<1>4. ASSUME Return(w)
      PROVE  /\ PoolOK' /\ FoundOK'
             /\ Held' \subseteq Held /\ Held \subseteq Held' \cup {worker[w].job}
             /\ \A v \in Workers : v # w => worker'[v] = worker[v]
  <2>1. PICK pc \in {"notify", "ready"} : Moved(w, pc, NoJob, NoJob)
    BY <1>1, <1>4, ReturnMoves
  <2>2. /\ PoolOK' /\ FoundOK'
        /\ Held' \subseteq Held /\ Held \subseteq Held' \cup {worker[w].job}
    BY <2>1, WorkerIdles
  <2>. QED BY <2>1, <2>2 DEF Moved
<1>. QED BY <1>2, <1>3, <1>4 DEF Works

\* A job of the search, the sidebar or the index leaves source control alone.
LEMMA OtherWorks ==
  ASSUME IInv, NEW w \in Workers, Running(w), Works(w), worker[w].job.svc \notin Scm,
         UNCHANGED <<jobs, token, stopFlag, ui, scmVars>>
  PROVE  PoolOK' /\ FoundOK' /\ RefreshOK' /\ DiffOK'
<1>1. /\ PoolOK' /\ FoundOK'
      /\ Held' \subseteq Held /\ Held \subseteq Held' \cup {worker[w].job}
      /\ \A v \in Workers : v # w => worker'[v] = worker[v]
  BY JobWorks DEF IInv
<1>2. HasFound(w)' => worker'[w].job = worker[w].job
  <2>1. worker \in [Workers -> Threads]
    BY DEF IInv, PoolOK
  <2>. QED BY <2>1, ScannedMoves, GotoMoves, ReturnMoves DEF Works, Moved, HasFound, Pcs
<1>3. \A v \in Workers :
        HasFound(v)' /\ worker'[v].job.svc = "refresh" => worker'[v] = worker[v]
  BY <1>1, <1>2 DEF Scm
<1>4. RefreshOK' /\ DiffOK'
  BY <1>1, <1>3, ScmStays DEF IInv
<1>. QED BY <1>1, <1>4

LEMMA SearchStepSafe ==
  ASSUME IInv, NEW w \in Workers, SearchStep(w, tree), UNCHANGED <<ui, tree>>,
         UNCHANGED <<dirVars, indexVars, scmVars>>
  PROVE  IInv'
<1> USE DEF IInv
<1>1. /\ Running(w) /\ worker[w].job.svc = "search" /\ worker[w].job \in Jobs
      /\ UNCHANGED <<jobs, token, stopFlag, searchRoot>>
  BY DEF SearchStep, SearchScan, SearchRecheck, SearchPublish, SearchSettle, Running, PoolOK,
         queueVars, searchVars, engineVars
<1>2. Matches(worker[w].job.query, worker[w].job.root, tree) \in Gots
  BY <1>1 DEF Matches, Jobs, Gots, Found, ServicesOK
<1>3. Works(w)
  BY <1>1, <1>2 DEF SearchStep, SearchScan, SearchRecheck, SearchPublish, SearchSettle, Works
<1>4. PoolOK' /\ FoundOK' /\ RefreshOK' /\ DiffOK'
  BY <1>1, <1>3, OtherWorks DEF Scm
<1>5. ServicesOK' /\ ListingsOfThisRoot'
  BY <1>1 DEF ServicesOK, ListingsOfThisRoot, dirVars, scannerVars, indexVars, indexCore, scmVars
<1>. QED BY <1>4, <1>5

LEMMA DirStepSafe ==
  ASSUME IInv, NEW w \in Workers, DirStep(w, tree), UNCHANGED <<ui, tree>>,
         UNCHANGED <<searchVars, indexVars, scmVars>>
  PROVE  IInv'
<1> USE DEF IInv
<1>1. /\ Running(w) /\ worker[w].job.svc = "dirs" /\ worker[w].job \in Jobs
      /\ UNCHANGED <<jobs, token, stopFlag, projectPath, dirShown>>
  BY DEF DirStep, DirScan, DirRecheck, DirPublish, DirSettle, Running, PoolOK, queueVars,
         dirVars, scannerVars
<1>2. LET found == Listing(worker[w].job.root, tree)
      IN  found \in Gots /\ found \in Listings /\ found.root = worker[w].job.root
  BY <1>1 DEF Listing, Jobs, Gots, Listings, ServicesOK
<1>3. Works(w)
  BY <1>1, <1>2 DEF DirStep, DirScan, DirRecheck, DirPublish, DirSettle, Works
<1>4. PoolOK' /\ FoundOK' /\ RefreshOK' /\ DiffOK'
  BY <1>1, <1>3, OtherWorks DEF Scm
<1>5. fsEntries' = fsEntries \/ fsEntries'.root = projectPath
  BY <1>1 DEF DirStep, DirScan, DirRecheck, DirPublish, DirSettle, dirVars, scannerVars, FoundOK,
              HasFound
<1>6. ServicesOK' /\ ListingsOfThisRoot'
  BY <1>1, <1>5 DEF ServicesOK, ListingsOfThisRoot, searchVars, engineVars, indexVars, indexCore,
                    scmVars
<1>. QED BY <1>4, <1>6

LEMMA IndexStepSafe ==
  ASSUME IInv, NEW w \in Workers, IndexStep(w, tree), UNCHANGED <<ui, tree>>,
         UNCHANGED <<searchVars, dirVars, scmVars>>
  PROVE  IInv'
<1> USE DEF IInv
<1>1. /\ Running(w) /\ worker[w].job.svc = "index" /\ worker[w].job \in Jobs
      /\ UNCHANGED <<jobs, token, stopFlag, indexRoot>>
  BY DEF IndexStep, IndexScan, IndexRecheck, IndexPublish, IndexSettle, Running, PoolOK, queueVars,
         indexVars, indexCore
<1>2. LET found == Files(worker[w].job.root, tree)
      IN  found \in Gots /\ found \in Listings /\ found.root = worker[w].job.root
  BY <1>1 DEF Files, Jobs, Gots, Listings, ServicesOK
<1>3. Works(w)
  BY <1>1, <1>2 DEF IndexStep, IndexScan, IndexRecheck, IndexPublish, IndexSettle, Works
<1>4. PoolOK' /\ FoundOK' /\ RefreshOK' /\ DiffOK'
  BY <1>1, <1>3, OtherWorks DEF Scm
<1>5. files' = files \/ files'.root = indexRoot
  BY <1>1 DEF IndexStep, IndexScan, IndexRecheck, IndexPublish, IndexSettle, indexVars, indexCore,
              FoundOK, HasFound
<1>6. ServicesOK' /\ ListingsOfThisRoot'
  BY <1>1, <1>5 DEF ServicesOK, ListingsOfThisRoot, searchVars, engineVars, dirVars, scannerVars,
                    scmVars
<1>. QED BY <1>4, <1>6

\* A job of source control that scans, or that returns without having stored anything
\* because it is not the newest.
LEMMA ScmScanSafe ==
  ASSUME IInv, NEW w \in Workers, RefreshScan(w, tree) \/ DiffScan(w, tree),
         UNCHANGED <<ui, tree>>, UNCHANGED <<searchVars, dirVars, indexVars>>
  PROVE  IInv'
<1> USE DEF IInv
<1> DEFINE job == worker[w].job
<1>1. /\ Running(w) /\ job \in Jobs /\ UNCHANGED <<jobs, token, stopFlag, scmVars>>
      /\ \/ job.svc = "refresh" /\ job.token = refreshToken /\ Scanned(w, Snapshot(job.root, tree))
         \/ job.svc = "refresh" /\ job.token # refreshToken /\ Return(w)
         \/ job.svc = "diff" /\ job.token = diffToken
              /\ Scanned(w, FileDiff(job.root, job.lines, tree))
         \/ job.svc = "diff" /\ job.token # diffToken /\ Return(w)
  BY DEF RefreshScan, DiffScan, Running, PoolOK, queueVars
<1>2. job.svc = "refresh" =>
        LET found == Snapshot(job.root, tree)
        IN  found \in Gots /\ found \in Listings /\ found.root = job.root /\ found.tree = tree
  BY <1>1 DEF Snapshot, Jobs, Gots, Listings, ServicesOK
<1>3. job.svc = "diff" =>
        LET found == FileDiff(job.root, job.lines, tree)
        IN  found \in Gots /\ found \in FileDiffs /\ found.root = job.root
              /\ found.lines = job.lines
  BY <1>1 DEF FileDiff, Jobs, Gots, FileDiffs, ServicesOK
<1>4. Works(w)
  BY <1>1, <1>2, <1>3 DEF Works
<1>5. /\ PoolOK' /\ FoundOK'
      /\ Held' \subseteq Held /\ Held \subseteq Held' \cup {job}
      /\ ~Return(w) => Held' = Held
      /\ \A v \in Workers : v # w => worker'[v] = worker[v]
  BY <1>1, <1>4, JobWorks
<1>6. worker \in [Workers -> Threads] /\ Scanned(w, Snapshot(job.root, tree))
        /\ job.svc = "refresh" => worker'[w].got.tree = tree
  BY <1>2, ScannedMoves DEF Moved
<1>7. ASSUME HasFound(w)', worker'[w].job.svc = "refresh"
      PROVE  worker'[w].got.tree = tree
  <2>1. worker \in [Workers -> Threads]
    BY DEF PoolOK
  <2>2. ~Return(w)
    BY <1>7, <2>1, ReturnMoves DEF Moved, HasFound
  <2>3. job.svc = "diff" => worker'[w].job = job
    BY <1>1, <1>3, <2>1, <2>2, ScannedMoves DEF Moved
  <2>. QED BY <1>1, <1>6, <1>7, <2>1, <2>2, <2>3
<1>8. \A j \in Held : \/ j \in Held'
                      \/ j.svc = "refresh" /\ j.token # refreshToken
                      \/ j.svc = "diff" /\ j.token # diffToken
  <2>1. CASE Return(w)
    <3>1. \/ job.svc = "refresh" /\ job.token # refreshToken
          \/ job.svc = "diff" /\ job.token # diffToken
      <4>1. worker \in [Workers -> Threads]
        BY DEF PoolOK
      <4>2. worker'[w].pc # "scanned"
        BY <2>1, <4>1, ReturnMoves DEF Moved
      <4>. QED BY <1>1, <1>2, <1>3, <4>1, <4>2, ScannedMoves DEF Moved
    <3>. QED BY <1>5, <3>1
  <2>2. CASE ~Return(w)
    BY <1>5, <2>2
  <2>. QED BY <2>1, <2>2
<1>9. RefreshOK'
  BY <1>1, <1>5, <1>7, <1>8 DEF RefreshOK, SnapshotFresh, Pending, HasFound, scmVars, ServicesOK
<1>10. DiffOK'
  BY <1>1, <1>5, <1>8 DEF DiffOK, DiffIsOfLast, DiffFresh, Pending, scmVars
<1>11. ServicesOK' /\ ListingsOfThisRoot'
  BY <1>1 DEF ServicesOK, ListingsOfThisRoot, searchVars, engineVars, dirVars, scannerVars,
              indexVars, indexCore, scmVars
<1>. QED BY <1>5, <1>9, <1>10, <1>11

\* The newest job of its kind stores what it found; another returns.
LEMMA ApplySnapshotSafe ==
  ASSUME IInv, NEW w \in Workers, ApplySnapshot(w), UNCHANGED <<ui, tree>>,
         UNCHANGED <<searchVars, dirVars, indexVars>>
  PROVE  IInv'
<1> USE DEF IInv
<1> DEFINE job == worker[w].job
<1>1. /\ Running(w) /\ HasFound(w) /\ job \in Jobs /\ job.svc = "refresh" /\ Return(w)
      /\ UNCHANGED <<jobs, token, stopFlag, scmRoot, refreshToken, diffs, diffToken, active,
                     diffPath, diffLines, asked>>
      /\ snapshot' = IF job.token = refreshToken THEN worker[w].got ELSE snapshot
  BY DEF ApplySnapshot, Running, HasFound, PoolOK, queueVars
<1>2. /\ PoolOK' /\ FoundOK'
      /\ Held' \subseteq Held /\ Held \subseteq Held' \cup {job}
      /\ \A v \in Workers : v # w => worker'[v] = worker[v]
  BY <1>1, JobWorks DEF Works
<1>3. ~HasFound(w)'
  <2>1. worker \in [Workers -> Threads]
    BY DEF PoolOK
  <2>. QED BY <1>1, <2>1, ReturnMoves DEF Moved, HasFound
<1>4. RefreshOK'
  <2>1. CASE job.token = refreshToken
    <3>1. /\ worker[w].got \in Listings /\ worker[w].got.root = job.root
          /\ worker[w].got.tree >= asked
      BY <1>1, <2>1 DEF FoundOK, RefreshOK
    <3>2. job \in Held
      BY <1>1 DEF Held, InHand
    <3>3. SnapshotFresh'
      BY <1>1, <2>1, <3>1, <3>2 DEF SnapshotFresh, RefreshOK
    <3>. QED BY <1>1, <1>2, <1>3, <3>3 DEF RefreshOK, HasFound
  <2>2. CASE job.token # refreshToken
    <3>1. Pending("refresh", refreshToken) => Pending("refresh", refreshToken)'
      BY <1>1, <1>2, <2>2 DEF Pending
    <3>. QED BY <1>1, <1>2, <1>3, <2>2, <3>1 DEF RefreshOK, SnapshotFresh, HasFound
  <2>. QED BY <2>1, <2>2
<1>5. DiffOK'
  BY <1>1, <1>2 DEF DiffOK, DiffIsOfLast, DiffFresh, Pending
<1>6. ServicesOK' /\ ListingsOfThisRoot'
  BY <1>1 DEF ServicesOK, ListingsOfThisRoot, searchVars, engineVars, dirVars, scannerVars,
              indexVars, indexCore
<1>. QED BY <1>2, <1>4, <1>5, <1>6

LEMMA ApplyFileDiffSafe ==
  ASSUME IInv, NEW w \in Workers, ApplyFileDiff(w), UNCHANGED <<ui, tree>>,
         UNCHANGED <<searchVars, dirVars, indexVars>>
  PROVE  IInv'
<1> USE DEF IInv
<1> DEFINE job == worker[w].job
<1>1. /\ Running(w) /\ HasFound(w) /\ job \in Jobs /\ job.svc = "diff" /\ Return(w)
      /\ UNCHANGED <<jobs, token, stopFlag, scmRoot, snapshot, refreshToken, diffToken, active,
                     diffPath, diffLines, asked>>
      /\ diffs' = IF job.token = diffToken THEN [diffs EXCEPT ![job.path] = worker[w].got]
                                           ELSE diffs
  BY DEF ApplyFileDiff, Running, HasFound, PoolOK, queueVars
<1>2. /\ PoolOK' /\ FoundOK'
      /\ Held' \subseteq Held /\ Held \subseteq Held' \cup {job}
      /\ \A v \in Workers : v # w => worker'[v] = worker[v]
  BY <1>1, JobWorks DEF Works
<1>3. ~HasFound(w)'
  <2>1. worker \in [Workers -> Threads]
    BY DEF PoolOK
  <2>. QED BY <1>1, <2>1, ReturnMoves DEF Moved, HasFound
<1>4. RefreshOK'
  BY <1>1, <1>2, <1>3 DEF RefreshOK, SnapshotFresh, Pending, HasFound
<1>5. /\ worker[w].got \in FileDiffs /\ worker[w].got.root = job.root
      /\ worker[w].got.lines = job.lines /\ job.path \in Paths /\ job \in Held
  BY <1>1 DEF FoundOK, Jobs, Held, InHand
<1>6. DiffOK'
  <2>1. CASE job.token = diffToken
    BY <1>1, <1>2, <1>5, <2>1 DEF DiffOK, DiffIsOfLast, DiffFresh, ServicesOK
  <2>2. CASE job.token # diffToken
    BY <1>1, <1>2, <2>2 DEF DiffOK, DiffIsOfLast, DiffFresh, Pending
  <2>. QED BY <2>1, <2>2
<1>7. ServicesOK' /\ ListingsOfThisRoot'
  BY <1>1, <1>5 DEF ServicesOK, ListingsOfThisRoot, searchVars, engineVars, dirVars, scannerVars,
              indexVars, indexCore
<1>. QED BY <1>2, <1>4, <1>6, <1>7

-------------------------------------------------------------------------------
(* The invariant and what follows from it.                                 *)

LEMMA InitSafe == Init => IInv
<1> SUFFICES ASSUME Init PROVE IInv
  OBVIOUS
<1>1. PICK svc \in {"dirs", "refresh"} :
        /\ PoolInit([svc |-> svc, root |-> StartRoot, token |-> 1])
        /\ DirInit(StartRoot, svc = "dirs")
        /\ ScmInit(StartRoot, StartPath, StartLines, svc = "refresh")
  BY DEF Init
<1> DEFINE job == [svc |-> svc, root |-> StartRoot, token |-> 1]
           busy == [pc |-> "taken", job |-> job, got |-> NoJob]
           idle == [pc |-> "wait", job |-> NoJob, got |-> NoJob]
<1>2. StartRoot \in Roots /\ StartPath \in Paths /\ StartLines \in Lines /\ NoPath \notin Paths
  BY UiLoopAssumption
<1>3. job \in Jobs /\ job.svc = svc /\ job.root = StartRoot /\ job.token = 1
  BY <1>2 DEF Jobs
<1>4. Busy \in Workers
  BY WorkersAssumption DEF Busy
<1>5. /\ jobs = <<>> /\ stopFlag = FALSE /\ token = 2
      /\ worker = [w \in Workers |-> IF w = Busy THEN busy ELSE idle]
  BY <1>1 DEF PoolInit
<1>6. busy \in Threads /\ idle \in Threads
  <2> HIDE DEF job
  <2>. QED BY <1>3 DEF Threads, Pcs, Gots
<1>7. /\ busy.pc = "taken" /\ busy.job = job /\ idle.pc = "wait"
  OBVIOUS
<1> HIDE DEF job, busy, idle
<1>8. /\ worker \in [Workers -> Threads] /\ jobs \in Seq(Jobs)
      /\ \A w \in Workers : Running(w) <=> w = Busy
      /\ \A w \in Workers : ~HasFound(w) /\ worker[w].pc # "exit"
      /\ worker[Busy].job = job
  BY <1>4, <1>5, <1>6, <1>7 DEF Running, HasFound
<1>9. Held = {job}
  BY <1>4, <1>5, <1>8 DEF Held, Queued, InHand
<1>10. PoolOK
  <2>1. ui = "poll"
    BY DEF Init, UiInit
  <2>2. \A w \in Workers : Running(w) => worker[w].job \in Jobs
    BY <1>3, <1>8
  <2>3. stopFlag = (ui = "joining")
    BY <1>5, <2>1
  <2>4. \A j \in Held : j.token < token
    BY <1>3, <1>5, <1>9
  <2>. QED BY <1>5, <1>8, <2>2, <2>3, <2>4 DEF PoolOK
<1>11. ServicesOK
  BY <1>1, <1>2, <1>5 DEF ServicesOK, Init, UiInit, DirInit, ScmInit, SearchInit, IndexInit,
                          FileDiff, FileDiffs
<1>12. FoundOK
  BY <1>8 DEF FoundOK
<1>13. ListingsOfThisRoot
  BY <1>1 DEF ListingsOfThisRoot, Init, DirInit, IndexInit, Listing, Files
<1>14. RefreshOK
  BY <1>1, <1>2, <1>3, <1>8, <1>9 DEF RefreshOK, ScmInit, Snapshot, SnapshotFresh, Pending, Listings
<1>15. DiffOK
  BY <1>1, <1>2, <1>3, <1>9 DEF DiffOK, DiffIsOfLast, DiffFresh, ScmInit, FileDiff, FileDiffs
<1>. QED BY <1>10, <1>11, <1>12, <1>13, <1>14, <1>15 DEF IInv

LEMMA NextSafe == IInv /\ [Next]_vars => IInv'
<1> SUFFICES ASSUME IInv, [Next]_vars PROVE IInv'
  OBVIOUS
<1>1. CASE UNCHANGED vars
  BY <1>1 DEF vars, poolVars, searchVars, engineVars, panelVars, dirVars, scannerVars, indexVars,
     indexCore, pickerVars, scmVars, uiVars, diskVars, IInv, PoolOK, ServicesOK, FoundOK,
     ListingsOfThisRoot, RefreshOK, DiffOK, DiffIsOfLast, DiffFresh, SnapshotFresh, Pending,
     Held, Queued, InHand, Running, HasFound
<1>2. CASE Poll(TRUE) \/ EditFiles
  BY <1>2, QuietSteps
<1>3. CASE UiStep
  BY <1>3, QuietSteps, EndSteps, SearchKeySafe, FileKeySafe, RefreshExplorerSafe, SaveKeySafe,
     TurnSafe, OpenWorkspaceSafe DEF UiStep, HandleInput
<1>4. ASSUME NEW w \in Workers, WorkerStep(w)
      PROVE  IInv'
  <2>1. UNCHANGED <<ui, tree>>
    BY <1>4 DEF WorkerStep, uiVars, diskVars
  <2>. QED BY <1>4, <2>1, PoolStepSafe, SearchStepSafe, DirStepSafe, IndexStepSafe, ScmScanSafe,
              ApplySnapshotSafe, ApplyFileDiffSafe DEF WorkerStep, ScmStep
<1>5. CASE Terminated
  BY <1>1, <1>5 DEF Terminated
<1>. QED BY <1>1, <1>2, <1>3, <1>4, <1>5 DEF Next

(* IInv is an invariant: the pool's jobs and what they found are in order.  *)
THEOREM LoopInvariant == Spec => []IInv
BY InitSafe, NextSafe, PTL DEF Spec

(* Once no refresh is under way the snapshot is of the open workspace and   *)
(* not older than the last request; once no diff is, the diff of the file   *)
(* that was asked about last is there (apply_snapshot and apply_file_diff   *)
(* look at the token with the mutex held, scm_service.cpp:37): whatever the *)
(* workers, the roots, the files and the order in which the jobs end.       *)
THEOREM ScmIsFresh == Spec => []ScmFresh
<1>1. IInv => ScmFresh
  <2> SUFFICES ASSUME IInv PROVE ScmFresh
    OBVIOUS
  <2>1. ASSUME NEW svc, Quiet(svc)
        PROVE  \A j \in Held : j.svc # svc
    BY <2>1 DEF Quiet, Held, Queued, InHand
  <2>2. Quiet("refresh") => snapshot.root = scmRoot /\ snapshot.tree >= asked
    BY <2>1 DEF IInv, RefreshOK, SnapshotFresh, Pending
  <2>3. ASSUME Quiet("diff"), diffPath # NoPath
        PROVE  /\ diffs[diffPath] # NoDiff
               /\ diffs[diffPath].lines = diffLines /\ diffs[diffPath].root = scmRoot
    BY <2>1, <2>3, UiLoopAssumption DEF IInv, DiffOK, DiffFresh, Pending, FileDiffs
  <2>. QED BY <2>2, <2>3 DEF ScmFresh
<1>. QED BY <1>1, LoopInvariant, PTL

(* A listing or an index that a scan left is of the workspace that is open  *)
(* (the publishing step compares the roots, dirscanner_part2.cpp:110 and    *)
(* fuzzy_index.cpp:102).                                                   *)
THEOREM ListingsAreOfThisRoot == Spec => []ListingsOfThisRoot
<1>1. IInv => ListingsOfThisRoot
  BY DEF IInv
<1>. QED BY <1>1, LoopInvariant, PTL

(* stop() drops no job: a worker leaves only when the queue is empty, and   *)
(* nothing is posted once one may leave (async.cpp:43).                     *)
THEOREM NothingIsDropped == Spec => []StopDropsNothing
<1>1. IInv => StopDropsNothing
  BY WorkersAssumption DEF IInv, PoolOK, StopDropsNothing
<1>. QED BY <1>1, LoopInvariant, PTL

===============================================================================
