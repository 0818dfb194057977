----------------------------- MODULE Threadpool -----------------------------
(***************************************************************************)
(* The pool of threads that runs the client handlers.                      *)
(*                                                                         *)
(* The workers and the thread that owns the pool share the queue tasks and *)
(* the flag stop under one mutex, and meet on one condition variable.  An  *)
(* action is what a thread does between two points where another one can   *)
(* get in: taking the mutex, the work under it up to its release (the wait *)
(* of the condition variable releases it and sleeps in one step), a        *)
(* notification, which is sent without the mutex, and a task.              *)
(***************************************************************************)
EXTENDS Naturals, Sequences, SequencesExt, FiniteSets

CONSTANTS
    Worker,        \* the threads of the pool
    Task,          \* the tasks its owner may enqueue
    MaxSpurious,   \* bound: wakeups of cv.wait that nobody asked for
    Main,          \* the thread that owns the pool
    None

ASSUME ThreadpoolAssumption ==
    /\ IsFiniteSet(Worker)
    /\ Worker # {}                      \* the constructor throws otherwise
    /\ Main \notin Worker
    /\ None \notin Worker \cup {Main}
    /\ None \notin Task
    /\ MaxSpurious \in Nat

VARIABLES
    mtx,       \* the thread that holds the mutex, or None
    tasks,     \* the queue
    stop,      \* set by the destructor
    wpc,       \* where each worker is
    cur,       \* the task a worker is running
    mpc,       \* where the owner is
    arg,       \* the task the owner is enqueueing
    finished,  \* history: the tasks that have run
    spurious   \* the spurious wakeups so far

vars == <<mtx, tasks, stop, wpc, cur, mpc, arg, finished, spurious>>

Waiting == {w \in Worker : wpc[w] = "waiting"}             \* asleep in cv.wait
Awake   == {w \in Worker : wpc[w] \in {"acquire", "test"}} \* on the way to the queue
Running == {w \in Worker : wpc[w] = "run"}

Init ==
    /\ mtx = None
    /\ tasks = <<>>
    /\ stop = FALSE
    /\ wpc = [w \in Worker |-> "acquire"]
    /\ cur = [w \in Worker |-> None]
    /\ mpc = "idle"
    /\ arg = None
    /\ finished = {}
    /\ spurious = 0
-----------------------------------------------------------------------------
(* The loop of a worker *)

\* The constructor of unique_lock, or the end of a wait: the worker gets the mutex.
Acquire(w) ==
    /\ wpc[w] = "acquire"
    /\ mtx = None
    /\ mtx' = w
    /\ wpc' = [wpc EXCEPT ![w] = "test"]
    /\ UNCHANGED <<tasks, stop, cur, mpc, arg, finished, spurious>>

\* Mutant: the predicate of cv.wait forgets stop.
SleepWhenEmpty(w) ==
    /\ wpc[w] = "test"
    /\ tasks = <<>>
    /\ mtx' = None
    /\ wpc' = [wpc EXCEPT ![w] = "waiting"]
    /\ UNCHANGED <<tasks, stop, cur, mpc, arg, finished, spurious>>

\* The predicate of cv.wait is false: the mutex is released and the worker sleeps.
Sleep(w) ==
    /\ wpc[w] = "test"
    /\ tasks = <<>> /\ ~stop
    /\ mtx' = None
    /\ wpc' = [wpc EXCEPT ![w] = "waiting"]
    /\ UNCHANGED <<tasks, stop, cur, mpc, arg, finished, spurious>>

\* The front of the queue is popped, the mutex released and the task called.
Take(w) ==
    /\ wpc[w] = "test"
    /\ tasks # <<>>
    /\ cur' = [cur EXCEPT ![w] = Head(tasks)]
    /\ tasks' = Tail(tasks)
    /\ mtx' = None
    /\ wpc' = [wpc EXCEPT ![w] = "run"]
    /\ UNCHANGED <<stop, mpc, arg, finished, spurious>>

\* The task returns, by an exception too: packaged_task keeps it for the future.
Complete(w) ==
    /\ wpc[w] = "run"
    /\ finished' = finished \cup {cur[w]}
    /\ cur' = [cur EXCEPT ![w] = None]
    /\ wpc' = [wpc EXCEPT ![w] = "acquire"]
    /\ UNCHANGED <<mtx, tasks, stop, mpc, arg, spurious>>

\* Mutant: a stopping pool leaves its queue.
ExitAtStop(w) ==
    /\ wpc[w] = "test"
    /\ stop
    /\ mtx' = None
    /\ wpc' = [wpc EXCEPT ![w] = "exited"]
    /\ UNCHANGED <<tasks, stop, cur, mpc, arg, finished, spurious>>

\* Nothing is left and the pool is stopping: the thread ends.
Exit(w) ==
    /\ wpc[w] = "test"
    /\ stop /\ tasks = <<>>
    /\ mtx' = None
    /\ wpc' = [wpc EXCEPT ![w] = "exited"]
    /\ UNCHANGED <<tasks, stop, cur, mpc, arg, finished, spurious>>

\* cv.wait may wake up by itself.
WakeSpuriously(w) ==
    /\ wpc[w] = "waiting"
    /\ spurious < MaxSpurious
    /\ spurious' = spurious + 1
    /\ wpc' = [wpc EXCEPT ![w] = "acquire"]
    /\ UNCHANGED <<mtx, tasks, stop, cur, mpc, arg, finished>>
-----------------------------------------------------------------------------
(* The owner: enqueueTask, then the destructor *)

Enqueued == ToSet(tasks) \cup {cur[w] : w \in Running} \cup finished

\* enqueueTask has packed a task and takes the mutex.
LockToPush ==
    /\ mpc = "idle"
    /\ mtx = None
    /\ \E t \in Task \ Enqueued : arg' = t
    /\ mtx' = Main
    /\ mpc' = "push"
    /\ UNCHANGED <<tasks, stop, wpc, cur, finished, spurious>>

\* Mutant: the task is moved from before it gets into the queue.
PushMoved ==
    /\ mpc = "push"
    /\ tasks' = Append(tasks, None)
    /\ arg' = None
    /\ mtx' = None
    /\ mpc' = "notify"
    /\ UNCHANGED <<stop, wpc, cur, finished, spurious>>

Push ==
    /\ mpc = "push"
    /\ tasks' = Append(tasks, arg)
    /\ arg' = None
    /\ mtx' = None
    /\ mpc' = "notify"
    /\ UNCHANGED <<stop, wpc, cur, finished, spurious>>

\* Mutant: only the first task of a queue is notified.
NotifyFirst ==
    /\ mpc = "notify"
    /\ IF Waiting = {} \/ Len(tasks) > 1 THEN UNCHANGED wpc
       ELSE \E w \in Waiting : wpc' = [wpc EXCEPT ![w] = "acquire"]
    /\ mpc' = "idle"
    /\ UNCHANGED <<mtx, tasks, stop, cur, arg, finished, spurious>>

\* cv.notify_one, without the mutex: one sleeping worker wakes up, if there is one.
NotifyOne ==
    /\ mpc = "notify"
    /\ IF Waiting = {} THEN UNCHANGED wpc
       ELSE \E w \in Waiting : wpc' = [wpc EXCEPT ![w] = "acquire"]
    /\ mpc' = "idle"
    /\ UNCHANGED <<mtx, tasks, stop, cur, arg, finished, spurious>>

\* The destructor, up to lock.unlock().
LockToStop ==
    /\ mpc = "idle"
    /\ mtx = None
    /\ mtx' = Main
    /\ mpc' = "stop"
    /\ UNCHANGED <<tasks, stop, wpc, cur, arg, finished, spurious>>

SetStop ==
    /\ mpc = "stop"
    /\ stop' = TRUE
    /\ mtx' = None
    /\ mpc' = "notifyAll"
    /\ UNCHANGED <<tasks, wpc, cur, arg, finished, spurious>>

\* Mutant: the destructor wakes one thread.
StopNotifiesOne ==
    /\ mpc = "notifyAll"
    /\ IF Waiting = {} THEN UNCHANGED wpc
       ELSE \E w \in Waiting : wpc' = [wpc EXCEPT ![w] = "acquire"]
    /\ mpc' = "join"
    /\ UNCHANGED <<mtx, tasks, stop, cur, arg, finished, spurious>>

NotifyAll ==
    /\ mpc = "notifyAll"
    /\ wpc' = [w \in Worker |-> IF wpc[w] = "waiting" THEN "acquire" ELSE wpc[w]]
    /\ mpc' = "join"
    /\ UNCHANGED <<mtx, tasks, stop, cur, arg, finished, spurious>>

\* Every thread is joined.
Join ==
    /\ mpc = "join"
    /\ \A w \in Worker : wpc[w] = "exited"
    /\ mpc' = "destroyed"
    /\ UNCHANGED <<mtx, tasks, stop, wpc, cur, arg, finished, spurious>>
-----------------------------------------------------------------------------
WorkerStep(w) == \/ Acquire(w) \/ Sleep(w) \/ Take(w) \/ Complete(w) \/ Exit(w)

\* What the owner does once it has begun a call of the pool.
OwnerStep == \/ Push \/ NotifyOne \/ SetStop \/ NotifyAll \/ Join

Next == \/ \E w \in Worker : WorkerStep(w) \/ WakeSpuriously(w)
        \/ OwnerStep \/ LockToPush \/ LockToStop

Spec == Init /\ [][Next]_vars

\* Every thread that can run goes on, and somebody gets a mutex that is free.
\* The tasks are assumed to return: a handler does when its peer has gone.
Fairness ==
    /\ \A w \in Worker : WF_vars(Sleep(w) \/ Take(w) \/ Complete(w) \/ Exit(w))
    /\ WF_vars(\E w \in Worker : Acquire(w))
    /\ WF_vars(OwnerStep)

FairSpec == Spec /\ Fairness
-----------------------------------------------------------------------------
(* Properties *)

TypeOK ==
    /\ mtx \in Worker \cup {Main, None}
    /\ tasks \in Seq(Task)
    /\ stop \in BOOLEAN
    /\ wpc \in [Worker -> {"acquire", "test", "waiting", "run", "exited"}]
    /\ cur \in [Worker -> Task \cup {None}]
    /\ mpc \in {"idle", "push", "notify", "stop", "notifyAll", "join", "destroyed"}
    /\ arg \in Task \cup {None}
    /\ finished \subseteq Task
    /\ spurious \in 0 .. MaxSpurious

\* While a worker sleeps, each task in the queue has a worker of its own on the
\* way to it, or the notification about to be sent: no notify_one is lost,
\* although it is sent after the mutex is released and a worker that was never
\* asleep may take the task first.
NoLostWakeup ==
    Waiting # {} =>
        Len(tasks) <= Cardinality(Awake) + (IF mpc = "notify" THEN 1 ELSE 0)

\* Once the destructor has sent notify_all, no worker is asleep or falls
\* asleep again, so join cannot wait for a thread that nobody will wake.
NoSleepWhileJoining == mpc \in {"join", "destroyed"} => Waiting = {}

\* The pool keeps the promise of TaskQueue: first in first out, each task once,
\* nothing left behind by the destructor.
Promise == INSTANCE TaskQueue WITH
    queue   <- tasks,
    running <- {cur[w] : w \in Running},
    closed  <- (mpc = "destroyed")

KeepsPromise == Promise!Spec

\* A task that was enqueued is run, even if the pool is being destroyed.
EnqueuedIsRun == \A t \in Task : t \in Enqueued ~> t \in finished

\* A destructor that got the mutex returns.
DestructorReturns == stop ~> mpc = "destroyed"
=============================================================================
