------------------------------ MODULE Background ------------------------------
(***************************************************************************)
(* The first version's background pool and UI wake                         *)
(* (old/src/utils/async.cpp, event_wake.cpp).                              *)
(*                                                                         *)
(* A fixed set of worker threads takes jobs from one queue, in order, under *)
(* one mutex and one condition variable; when a job returns, the worker     *)
(* writes to the UI's wake descriptor, if the UI has published one.  A job  *)
(* runs outside the mutex: its steps are actions of the service that posted *)
(* it (TextSearch, DirScanner, FileIndex, ScmService).                      *)
(*                                                                         *)
(* A worker's pc is                                                        *)
(*   "wait"    asleep on the condition variable                            *)
(*   "ready"   about to evaluate the wait's predicate under the mutex      *)
(*   "taken", "scanned", "checked", "published"   inside its job           *)
(*   "notify"  its job returned and it holds a loaded, non-null pointer     *)
(*   "exit"    left worker_loop                                            *)
(***************************************************************************)
EXTENDS Integers, Sequences, FiniteSets

CONSTANTS Workers,  \* the pool's threads
          NoJob     \* what a worker without a job holds

ASSUME WorkersAssumption == IsFiniteSet(Workers) /\ Workers # {}

VARIABLES
  jobs,       \* the queue of posted jobs
  stopFlag,   \* stop() was called
  started,    \* the pool accepts jobs
  token,      \* the next value of next_token()
  worker,     \* the threads: pc, the job and what its scan returned
  uiWake,     \* EventWake::ui() is not null
  wakeAlive,  \* the EventWake object of UI::run exists
  wakeSet     \* its descriptor is readable

poolVars == <<jobs, stopFlag, started, token, worker, uiWake, wakeAlive, wakeSet>>
queueVars == <<jobs, stopFlag, started, token>>
wakeVars == <<uiWake, wakeAlive, wakeSet>>

Asleep == {w \in Workers : worker[w].pc = "wait"}
Running(w) == worker[w].pc \in {"taken", "scanned", "checked", "published"}

\* The pool with one job, of token 1, in the hands of a worker: they are alike, so any
\* one will do.
Busy == CHOOSE w \in Workers : TRUE

PoolInit(job) ==
  /\ jobs = <<>> /\ stopFlag = FALSE /\ started = TRUE /\ token = 2
  /\ worker = [w \in Workers |-> IF w = Busy
                                 THEN [pc |-> "taken", job |-> job, got |-> NoJob]
                                 ELSE [pc |-> "wait", job |-> NoJob, got |-> NoJob]]
  /\ uiWake = TRUE /\ wakeAlive = TRUE /\ wakeSet = FALSE

\* Steps of a worker that move its pc, keep what its scan returned, or end its job.
Goto(w, pc) == worker' = [worker EXCEPT ![w].pc = pc]
Scanned(w, found) == worker' = [worker EXCEPT ![w].pc = "scanned", ![w].got = found]

\* A worker that forgets to wake the UI.
ReturnSilently(w) ==
  worker' = [worker EXCEPT ![w] = [pc |-> "ready", job |-> NoJob, got |-> NoJob]]

\* The job returns and the worker loads EventWake::ui(): nothing to notify when the
\* UI has none.
Return(w) ==
  worker' = [worker EXCEPT ![w] = [pc |-> IF uiWake THEN "notify" ELSE "ready",
                                   job |-> NoJob, got |-> NoJob]]

\* post() of the jobs js, one after the other: each notify_one wakes one of the
\* sleeping workers, whichever the system picks.  The UI thread is the only one
\* that posts, and only between start() and stop().
Post(js) ==
  /\ jobs' = jobs \o js
  /\ \E woken \in SUBSET Asleep :
       /\ Cardinality(woken) = IF Len(js) < Cardinality(Asleep)
                               THEN Len(js) ELSE Cardinality(Asleep)
       /\ worker' = [w \in Workers |->
                       IF w \in woken THEN [worker[w] EXCEPT !.pc = "ready"] ELSE worker[w]]
  /\ UNCHANGED <<stopFlag, started, wakeVars>>

\* The wait's predicate, evaluated with the mutex held.
Take(w) ==
  /\ worker[w].pc = "ready" /\ jobs # <<>>
  /\ worker' = [worker EXCEPT ![w].pc = "taken", ![w].job = Head(jobs)]
  /\ jobs' = Tail(jobs)
  /\ UNCHANGED <<stopFlag, started, token, wakeVars>>

Sleep(w) ==
  /\ worker[w].pc = "ready" /\ jobs = <<>> /\ ~stopFlag
  /\ Goto(w, "wait")
  /\ UNCHANGED <<queueVars, wakeVars>>

\* A worker that leaves with the flag, whatever is queued.
ExitAtOnce(w) ==
  /\ worker[w].pc = "ready" /\ stopFlag
  /\ Goto(w, "exit")
  /\ UNCHANGED <<queueVars, wakeVars>>

Exit(w) ==
  /\ worker[w].pc = "ready" /\ jobs = <<>> /\ stopFlag
  /\ Goto(w, "exit")
  /\ UNCHANGED <<queueVars, wakeVars>>

\* notify() through the loaded pointer.  The object may be gone by then: what
\* such a write does is not the pool's to say, and here it does nothing.
Notify(w) ==
  /\ worker[w].pc = "notify"
  /\ Goto(w, "ready")
  /\ wakeSet' = (wakeSet \/ wakeAlive)
  /\ UNCHANGED <<queueVars, uiWake, wakeAlive>>

PoolStep(w) == Take(w) \/ Sleep(w) \/ Exit(w) \/ Notify(w)

\* A stop that wakes nobody.
StopQuietly == stopFlag' = TRUE /\ UNCHANGED <<jobs, started, token, worker, wakeVars>>

\* stop(), up to the joins: the flag, then notify_all.
Stop ==
  /\ stopFlag' = TRUE
  /\ worker' = [w \in Workers |-> IF w \in Asleep THEN [worker[w] EXCEPT !.pc = "ready"]
                                                  ELSE worker[w]]
  /\ UNCHANGED <<jobs, started, token, wakeVars>>

\* stop(), once every worker has been joined.
Joined ==
  /\ \A w \in Workers : worker[w].pc = "exit"
  /\ jobs' = <<>> /\ started' = FALSE /\ stopFlag' = FALSE
  /\ UNCHANGED <<token, worker, wakeVars>>

===============================================================================
