-------------------------- MODULE ThreadpoolProofs --------------------------
(***************************************************************************)
(* Proofs about Threadpool for every number of workers, every set of tasks *)
(* and every number of spurious wakeups.                                   *)
(***************************************************************************)
EXTENDS Threadpool, FiniteSetTheorems, SequenceTheorems, TLAPS

\* Who holds the mutex, who runs a task, and what has happened by then.
Shape ==
    /\ \A w \in Worker : mtx = w <=> wpc[w] = "test"
    /\ mtx = Main <=> mpc \in {"push", "stop"}
    /\ \A w \in Worker : wpc[w] = "run" <=> cur[w] # None
    /\ arg # None <=> mpc = "push"
    /\ stop <=> mpc \in {"notifyAll", "join", "destroyed"}
    /\ \A w \in Worker : wpc[w] = "exited" => stop /\ tasks = <<>>

\* What the inductive invariant says in the initial states.
LEMMA ShapeInit == Init => TypeOK /\ Shape
<1> SUFFICES ASSUME Init PROVE TypeOK /\ Shape
  OBVIOUS
<1> USE ThreadpoolAssumption DEF Init, ThreadpoolAssumption
<1>1. tasks \in Seq(Task)
  BY EmptySeq
<1>2. TypeOK
  <2>1. spurious \in 0 .. MaxSpurious
    OBVIOUS
  <2>2. wpc \in [Worker -> {"acquire", "test", "waiting", "run", "exited"}]
    OBVIOUS
  <2>3. cur \in [Worker -> Task \cup {None}]
    OBVIOUS
  <2> QED
    BY <1>1, <2>1, <2>2, <2>3 DEF TypeOK
<1>3. Shape
  BY DEF Shape
<1> QED
  BY <1>2, <1>3

\* Every step keeps the types and the shape.
LEMMA ShapeNext == TypeOK /\ Shape /\ [Next]_vars => TypeOK' /\ Shape'
<1> SUFFICES ASSUME TypeOK, Shape, [Next]_vars PROVE TypeOK' /\ Shape'
  OBVIOUS
<1> USE ThreadpoolAssumption DEF TypeOK, Shape, ThreadpoolAssumption
<1>1. ASSUME NEW w \in Worker, Acquire(w) PROVE TypeOK' /\ Shape'
  BY <1>1 DEF Acquire
<1>2. ASSUME NEW w \in Worker, Sleep(w) PROVE TypeOK' /\ Shape'
  BY <1>2 DEF Sleep
<1>3. ASSUME NEW w \in Worker, Take(w) PROVE TypeOK' /\ Shape'
  <2>1. Head(tasks) \in Task /\ Tail(tasks) \in Seq(Task)
    BY <1>3, HeadTailProperties DEF Take
  <2> QED
    BY <1>3, <2>1 DEF Take
<1>4. ASSUME NEW w \in Worker, Complete(w) PROVE TypeOK' /\ Shape'
  BY <1>4 DEF Complete
<1>5. ASSUME NEW w \in Worker, Exit(w) PROVE TypeOK' /\ Shape'
  BY <1>5 DEF Exit
<1>6. ASSUME NEW w \in Worker, WakeSpuriously(w) PROVE TypeOK' /\ Shape'
  BY <1>6 DEF WakeSpuriously
<1>7. CASE LockToPush
  BY <1>7 DEF LockToPush
<1>8. CASE Push
  <2>1. Append(tasks, arg) \in Seq(Task)
    BY <1>8, AppendProperties DEF Push
  <2> QED
    BY <1>8, <2>1 DEF Push
<1>9. CASE NotifyOne
  BY <1>9 DEF NotifyOne, Waiting
<1>10. CASE LockToStop
  BY <1>10 DEF LockToStop
<1>11. CASE SetStop
  BY <1>11 DEF SetStop
<1>12. CASE NotifyAll
  BY <1>12 DEF NotifyAll
<1>13. CASE Join
  BY <1>13 DEF Join
<1>14. CASE UNCHANGED vars
  BY <1>14 DEF vars
<1> QED
  BY <1>1, <1>2, <1>3, <1>4, <1>5, <1>6, <1>7, <1>8, <1>9, <1>10, <1>11, <1>12,
     <1>13, <1>14 DEF Next, WorkerStep, OwnerStep

\* Every variable of the pool keeps its type.
THEOREM Typing == Spec => []TypeOK
  BY ShapeInit, ShapeNext, PTL DEF Spec

LEMMA Shaped == Spec => [](TypeOK /\ Shape)
  BY ShapeInit, ShapeNext, PTL DEF Spec
-----------------------------------------------------------------------------
(* No lost wakeup *)

Claims == IF mpc = "notify" THEN 1 ELSE 0

\* Awake is a finite set, and a step that changes the place of one worker
\* changes its size by one at most.
LEMMA AwakeFinite ==
    /\ IsFiniteSet(Awake) /\ Cardinality(Awake) \in Nat
    /\ IsFiniteSet(Awake') /\ Cardinality(Awake') \in Nat
<1>1. Awake \subseteq Worker /\ Awake' \subseteq Worker
  BY DEF Awake
<1> QED
  BY <1>1, ThreadpoolAssumption, FS_Subset, FS_CardinalityType DEF ThreadpoolAssumption

LEMMA AwakeGrows ==
    ASSUME NEW w \in Worker, w \notin Awake, Awake' = Awake \cup {w}
    PROVE  Cardinality(Awake') = Cardinality(Awake) + 1
  BY AwakeFinite, FS_AddElement

LEMMA AwakeShrinks ==
    ASSUME NEW w \in Worker, w \in Awake, Awake' = Awake \ {w}
    PROVE  Cardinality(Awake') = Cardinality(Awake) - 1
  BY AwakeFinite, FS_RemoveElement

LEMMA NoLostWakeupNext ==
    TypeOK /\ Shape /\ NoLostWakeup /\ [Next]_vars => NoLostWakeup'
<1> SUFFICES ASSUME TypeOK, Shape, NoLostWakeup, [Next]_vars, Waiting' # {}
             PROVE  Len(tasks)' <= Cardinality(Awake') + Claims'
  BY DEF NoLostWakeup, Claims
<1> USE ThreadpoolAssumption, AwakeFinite DEF TypeOK, Shape, ThreadpoolAssumption
<1>0. Len(tasks) \in Nat
  BY LenProperties
<1>a. Waiting # {} => Len(tasks) <= Cardinality(Awake) + Claims
  BY DEF NoLostWakeup, Claims
<1>1. ASSUME NEW w \in Worker, Acquire(w) PROVE Len(tasks)' <= Cardinality(Awake') + Claims'
  <2>1. Awake' = Awake /\ Waiting' = Waiting
    BY <1>1 DEF Acquire, Awake, Waiting
  <2> QED
    BY <1>1, <1>a, <2>1 DEF Acquire, Claims
<1>2. ASSUME NEW w \in Worker, Sleep(w) PROVE Len(tasks)' <= Cardinality(Awake') + Claims'
  <2>1. Len(tasks)' = 0
    BY <1>2, EmptySeq DEF Sleep
  <2> QED
    BY <2>1 DEF Claims
<1>3. ASSUME NEW w \in Worker, Take(w) PROVE Len(tasks)' <= Cardinality(Awake') + Claims'
  <2>1. Awake' = Awake \ {w} /\ w \in Awake /\ Waiting' = Waiting
    BY <1>3 DEF Take, Awake, Waiting
  <2>2. Len(tasks)' = Len(tasks) - 1
    BY <1>3, HeadTailProperties DEF Take
  <2>3. Cardinality(Awake') = Cardinality(Awake) - 1
    BY <2>1, AwakeShrinks
  <2>4. Claims' = Claims
    BY <1>3 DEF Take, Claims
  <2> QED
    BY <1>0, <1>a, <2>1, <2>2, <2>3, <2>4 DEF Claims
<1>4. ASSUME NEW w \in Worker, Complete(w) PROVE Len(tasks)' <= Cardinality(Awake') + Claims'
  <2>1. Awake' = Awake \cup {w} /\ w \notin Awake /\ Waiting' = Waiting
    BY <1>4 DEF Complete, Awake, Waiting
  <2>2. Cardinality(Awake') = Cardinality(Awake) + 1
    BY <2>1, AwakeGrows
  <2>3. Len(tasks)' = Len(tasks) /\ Claims' = Claims
    BY <1>4 DEF Complete, Claims
  <2> QED
    BY <1>0, <1>a, <2>1, <2>2, <2>3 DEF Claims
<1>5. ASSUME NEW w \in Worker, Exit(w) PROVE Len(tasks)' <= Cardinality(Awake') + Claims'
  <2>1. Len(tasks)' = 0
    BY <1>5, EmptySeq DEF Exit
  <2> QED
    BY <2>1 DEF Claims
<1>6. ASSUME NEW w \in Worker, WakeSpuriously(w)
      PROVE  Len(tasks)' <= Cardinality(Awake') + Claims'
  <2>1. Awake' = Awake \cup {w} /\ w \notin Awake /\ w \in Waiting
    BY <1>6 DEF WakeSpuriously, Awake, Waiting
  <2>2. Cardinality(Awake') = Cardinality(Awake) + 1
    BY <2>1, AwakeGrows
  <2>3. Len(tasks)' = Len(tasks) /\ Claims' = Claims
    BY <1>6 DEF WakeSpuriously, Claims
  <2> QED
    BY <1>0, <1>a, <2>1, <2>2, <2>3 DEF Claims
<1>7. CASE LockToPush
  <2>1. Awake' = Awake /\ Waiting' = Waiting
    BY <1>7 DEF LockToPush, Awake, Waiting
  <2> QED
    BY <1>0, <1>7, <1>a, <2>1 DEF LockToPush, Claims
<1>8. CASE Push
  <2>1. Awake' = Awake /\ Waiting' = Waiting
    BY <1>8 DEF Push, Awake, Waiting
  <2>2. Len(tasks)' = Len(tasks) + 1
    BY <1>8, AppendProperties DEF Push
  <2> QED
    BY <1>0, <1>8, <1>a, <2>1, <2>2 DEF Push, Claims
<1>9. CASE NotifyOne
  <2>1. CASE Waiting = {}
    BY <1>9, <2>1 DEF NotifyOne, Waiting
  <2>2. CASE Waiting # {}
    <3>1. PICK w \in Waiting : wpc' = [wpc EXCEPT ![w] = "acquire"]
      BY <1>9, <2>2 DEF NotifyOne
    <3>2. Awake' = Awake \cup {w} /\ w \notin Awake /\ w \in Worker
      BY <3>1 DEF Awake, Waiting
    <3>3. Cardinality(Awake') = Cardinality(Awake) + 1
      BY <3>2, AwakeGrows
    <3>4. Len(tasks)' = Len(tasks) /\ Claims = 1 /\ Claims' = 0
      BY <1>9 DEF NotifyOne, Claims
    <3> QED
      BY <1>0, <1>a, <2>2, <3>3, <3>4
  <2> QED
    BY <2>1, <2>2
<1>10. CASE LockToStop
  <2>1. Awake' = Awake /\ Waiting' = Waiting
    BY <1>10 DEF LockToStop, Awake, Waiting
  <2> QED
    BY <1>0, <1>10, <1>a, <2>1 DEF LockToStop, Claims
<1>11. CASE SetStop
  <2>1. Awake' = Awake /\ Waiting' = Waiting
    BY <1>11 DEF SetStop, Awake, Waiting
  <2> QED
    BY <1>0, <1>11, <1>a, <2>1 DEF SetStop, Claims
<1>12. CASE NotifyAll
  BY <1>12 DEF NotifyAll, Waiting
<1>13. CASE Join
  <2>1. Awake' = Awake /\ Waiting' = Waiting
    BY <1>13 DEF Join, Awake, Waiting
  <2> QED
    BY <1>0, <1>13, <1>a, <2>1 DEF Join, Claims
<1>14. CASE UNCHANGED vars
  <2>1. Awake' = Awake /\ Waiting' = Waiting
    BY <1>14 DEF vars, Awake, Waiting
  <2> QED
    BY <1>0, <1>14, <1>a, <2>1 DEF vars, Claims
<1> QED
  BY <1>1, <1>2, <1>3, <1>4, <1>5, <1>6, <1>7, <1>8, <1>9, <1>10, <1>11, <1>12,
     <1>13, <1>14 DEF Next, WorkerStep, OwnerStep

\* However many threads and tasks there are, no task waits in the queue for a
\* worker that sleeps: threadpool.cpp checks the predicate under the mutex and
\* enqueueTask changes it under the mutex, so notify_one may come after it.
THEOREM WakeupsSuffice == Spec => []NoLostWakeup
<1>1. Init => NoLostWakeup
  BY EmptySeq DEF Init, NoLostWakeup, Waiting
<1> QED
  BY <1>1, Shaped, NoLostWakeupNext, PTL DEF Spec
-----------------------------------------------------------------------------
(* The destructor *)

LEMMA NoSleepNext ==
    TypeOK /\ Shape /\ NoSleepWhileJoining /\ [Next]_vars => NoSleepWhileJoining'
<1> SUFFICES ASSUME TypeOK, Shape, NoSleepWhileJoining, [Next]_vars
             PROVE  NoSleepWhileJoining'
  OBVIOUS
<1> USE DEF TypeOK, Shape, NoSleepWhileJoining, Waiting
<1>1. ASSUME NEW w \in Worker, WorkerStep(w) PROVE NoSleepWhileJoining'
  BY <1>1 DEF WorkerStep, Acquire, Sleep, Take, Complete, Exit
<1>2. ASSUME NEW w \in Worker, WakeSpuriously(w) PROVE NoSleepWhileJoining'
  BY <1>2 DEF WakeSpuriously
<1>3. CASE OwnerStep
  BY <1>3 DEF OwnerStep, Push, NotifyOne, SetStop, NotifyAll, Join
<1>4. CASE LockToPush \/ LockToStop
  BY <1>4 DEF LockToPush, LockToStop
<1>5. CASE UNCHANGED vars
  BY <1>5 DEF vars
<1> QED
  BY <1>1, <1>2, <1>3, <1>4, <1>5 DEF Next

\* Nobody sleeps while the destructor joins: stop is set under the mutex, so a
\* worker that has just found it FALSE is asleep, and woken, before notify_all.
THEOREM DestructorWakesAll == Spec => []NoSleepWhileJoining
<1>1. Init => NoSleepWhileJoining
  BY DEF Init, NoSleepWhileJoining
<1> QED
  BY <1>1, Shaped, NoSleepNext, PTL DEF Spec
-----------------------------------------------------------------------------
(* Threadpool implements TaskQueue *)

Active == {cur[w] : w \in Running}

\* No task is in two places: twice in the queue, in the queue and on a thread,
\* on two threads, or anywhere again once it has run or is about to be pushed.
Distinct ==
    /\ \A i, j \in 1 .. Len(tasks) : tasks[i] = tasks[j] => i = j
    /\ \A v, w \in Worker : cur[v] = cur[w] /\ cur[v] # None => v = w
    /\ \A i \in 1 .. Len(tasks) : tasks[i] \notin finished /\ tasks[i] # arg
    /\ \A w \in Worker : cur[w] # None =>
           /\ cur[w] \notin finished /\ cur[w] # arg
           /\ \A i \in 1 .. Len(tasks) : cur[w] # tasks[i]
    /\ arg \notin finished

LEMMA EnqueuedMembers ==
    ASSUME TypeOK, Shape, NEW t \in Task
    PROVE  t \in Enqueued <=> \/ \E i \in 1 .. Len(tasks) : tasks[i] = t
                              \/ \E w \in Worker : cur[w] = t
                              \/ t \in finished
<1>1. DOMAIN tasks = 1 .. Len(tasks)
  BY LenProperties DEF TypeOK
<1>2. t # None
  BY ThreadpoolAssumption DEF ThreadpoolAssumption
<1> QED
  BY <1>1, <1>2 DEF TypeOK, Shape, Enqueued, Running, ToSet

LEMMA DistinctNext == TypeOK /\ Shape /\ Distinct /\ [Next]_vars => Distinct'
<1> SUFFICES ASSUME TypeOK, Shape, Distinct, [Next]_vars PROVE Distinct'
  OBVIOUS
<1> USE ThreadpoolAssumption DEF TypeOK, Shape, Distinct, ThreadpoolAssumption
<1>0. Len(tasks) \in Nat
  BY LenProperties
<1>1. ASSUME NEW w \in Worker, Acquire(w) PROVE Distinct'
  BY <1>1 DEF Acquire
<1>2. ASSUME NEW w \in Worker, Sleep(w) PROVE Distinct'
  BY <1>2 DEF Sleep
<1>3. ASSUME NEW w \in Worker, Take(w) PROVE Distinct'
  <2>1. /\ Len(tasks') = Len(tasks) - 1
        /\ \A i \in 1 .. Len(tasks') : tasks'[i] = tasks[i + 1]
        /\ Head(tasks) = tasks[1] /\ Len(tasks) >= 1
    BY <1>0, <1>3, HeadTailProperties, EmptySeq DEF Take
  <2>2. \A i \in 1 .. Len(tasks') : i + 1 \in 1 .. Len(tasks) /\ i + 1 # 1
    BY <1>0, <2>1
  <2>3. 1 \in 1 .. Len(tasks)
    BY <1>0, <2>1
  <2>4. cur' = [cur EXCEPT ![w] = tasks[1]] /\ arg' = arg /\ finished' = finished
    BY <1>3, <2>1 DEF Take
  <2>5. \A i, j \in 1 .. Len(tasks') : tasks'[i] = tasks'[j] => i = j
    <3> SUFFICES ASSUME NEW i \in 1 .. Len(tasks'), NEW j \in 1 .. Len(tasks'),
                        tasks'[i] = tasks'[j]
                 PROVE  i = j
      OBVIOUS
    <3>1. i + 1 = j + 1
      BY <2>1, <2>2
    <3> QED
      BY <1>0, <2>1, <3>1
  <2>6. \A u, v \in Worker : cur'[u] = cur'[v] /\ cur'[u] # None => u = v
    BY <2>3, <2>4
  <2>7. \A i \in 1 .. Len(tasks') : tasks'[i] \notin finished' /\ tasks'[i] # arg'
    BY <2>1, <2>2, <2>4
  <2>8. ASSUME NEW v \in Worker, cur'[v] # None
        PROVE  /\ cur'[v] \notin finished' /\ cur'[v] # arg'
               /\ \A i \in 1 .. Len(tasks') : cur'[v] # tasks'[i]
    <3>1. CASE v = w
      <4>1. cur'[v] = tasks[1]
        BY <2>4, <3>1
      <4>2. \A i \in 1 .. Len(tasks') : tasks[1] # tasks'[i]
        BY <2>1, <2>2, <2>3
      <4> QED
        BY <2>3, <2>4, <4>1, <4>2
    <3>2. CASE v # w
      BY <2>1, <2>2, <2>4, <2>8, <3>2
    <3> QED
      BY <3>1, <3>2
  <2> QED
    BY <2>4, <2>5, <2>6, <2>7, <2>8
<1>4. ASSUME NEW w \in Worker, Complete(w) PROVE Distinct'
  BY <1>4 DEF Complete
<1>5. ASSUME NEW w \in Worker, Exit(w) PROVE Distinct'
  BY <1>5 DEF Exit
<1>6. ASSUME NEW w \in Worker, WakeSpuriously(w) PROVE Distinct'
  BY <1>6 DEF WakeSpuriously
<1>7. CASE LockToPush
  <2>1. PICK t \in Task \ Enqueued : arg' = t
    BY <1>7 DEF LockToPush
  <2>2. /\ t \notin finished /\ t # None
        /\ \A i \in 1 .. Len(tasks) : tasks[i] # t
        /\ \A w \in Worker : cur[w] # t
    BY <2>1, EnqueuedMembers
  <2> QED
    BY <1>7, <2>1, <2>2 DEF LockToPush
<1>8. CASE Push
  <2>1. /\ Len(tasks') = Len(tasks) + 1
        /\ \A i \in 1 .. Len(tasks) : tasks'[i] = tasks[i]
        /\ tasks'[Len(tasks) + 1] = arg
        /\ tasks' \in Seq(Task)
    BY <1>8, AppendProperties DEF Push
  <2>2. \A i \in 1 .. Len(tasks') : i \in 1 .. Len(tasks) \/ i = Len(tasks) + 1
    BY <1>0, <2>1
  <2>3. arg' = None /\ cur' = cur /\ finished' = finished /\ arg \in Task
    BY <1>8 DEF Push
  <2>4. \A i \in 1 .. Len(tasks') : tasks'[i] # None
    BY <2>1, <2>2, <2>3, LenProperties
  <2> QED
    BY <2>1, <2>2, <2>3, <2>4
<1>9. CASE OwnerStep /\ ~Push
  BY <1>9 DEF OwnerStep, NotifyOne, SetStop, NotifyAll, Join
<1>10. CASE LockToStop
  BY <1>10 DEF LockToStop
<1>11. CASE UNCHANGED vars
  BY <1>11 DEF vars
<1> QED
  BY <1>1, <1>2, <1>3, <1>4, <1>5, <1>6, <1>7, <1>8, <1>9, <1>10, <1>11
     DEF Next, WorkerStep, OwnerStep

\* A step that changes neither the queue, nor the running tasks, nor the
\* finished ones, nor the end of the pool is a stutter of TaskQueue.
LEMMA Stutter ==
    ASSUME tasks' = tasks, Active' = Active, finished' = finished,
           (mpc = "destroyed")' = (mpc = "destroyed")
    PROVE  UNCHANGED Promise!vars
  BY DEF Promise!vars, Active

\* Every step of the pool is a step of TaskQueue or a stutter.
LEMMA StepRefines ==
    TypeOK /\ Shape /\ Distinct /\ [Next]_vars => [Promise!Next]_(Promise!vars)
<1> SUFFICES ASSUME TypeOK, Shape, Distinct, [Next]_vars
             PROVE  Promise!Next \/ UNCHANGED Promise!vars
  OBVIOUS
<1> USE ThreadpoolAssumption DEF TypeOK, Shape, ThreadpoolAssumption
<1>1. ASSUME NEW w \in Worker, Acquire(w) \/ Sleep(w) \/ Exit(w) \/ WakeSpuriously(w)
      PROVE  UNCHANGED Promise!vars
  <2>1. tasks' = tasks /\ finished' = finished /\ mpc' = mpc /\ cur' = cur
    BY <1>1 DEF Acquire, Sleep, Exit, WakeSpuriously
  <2>2. Running' = Running
    BY <1>1 DEF Acquire, Sleep, Exit, WakeSpuriously, Running
  <2> QED
    BY <2>1, <2>2, Stutter DEF Active
<1>2. ASSUME NEW w \in Worker, Take(w) PROVE Promise!Next
  <2>1. Running' = Running \cup {w} /\ w \notin Running
    BY <1>2 DEF Take, Running
  <2>2. Active' = Active \cup {Head(tasks)}
    BY <1>2, <2>1 DEF Take, Active, Running
  <2>3. Promise!Start
    BY <1>2, <2>2 DEF Take, Promise!Start, Active
  <2> QED
    BY <2>3 DEF Promise!Next
<1>3. ASSUME NEW w \in Worker, Complete(w) PROVE Promise!Next
  <2>1. cur[w] \in Task /\ cur[w] \in Active
    BY <1>3 DEF Complete, Active, Running
  <2>2. Active' = Active \ {cur[w]}
    BY <1>3 DEF Complete, Active, Running, Distinct
  <2>3. PICK t \in Task : t = cur[w]
    BY <2>1
  <2>4. Promise!Finish(t)
    BY <1>3, <2>1, <2>2, <2>3 DEF Complete, Promise!Finish, Active
  <2> QED
    BY <2>4 DEF Promise!Next
<1>4. CASE Push
  <2>1. arg \in Task /\ arg \notin Active /\ arg \notin finished
    BY <1>4 DEF Push, Distinct, Active, Running
  <2>2. arg \notin Promise!ToSet(tasks)
    BY LenProperties DEF Distinct, Promise!ToSet
  <2>3. Active' = Active
    BY <1>4 DEF Push, Active, Running
  <2>4. /\ tasks' = Append(tasks, arg) /\ finished' = finished
        /\ ~(mpc = "destroyed") /\ (mpc = "destroyed")' = (mpc = "destroyed")
    BY <1>4 DEF Push
  <2>5. PICK t \in Task : t = arg
    BY <2>1
  <2>6. t \notin Promise!ToSet(tasks) \cup Active \cup finished /\ tasks' = Append(tasks, t)
    BY <2>1, <2>2, <2>4, <2>5
  <2>7. Promise!Submit(t)
    BY <2>3, <2>4, <2>6, Zenon DEF Promise!Submit, Active
  <2> QED
    BY <2>7 DEF Promise!Next
<1>5. CASE Join
  <2>1. PICK w \in Worker : TRUE
    OBVIOUS
  <2>2. tasks = <<>> /\ Running = {}
    BY <1>5, <2>1 DEF Join, Running
  <2>3. Active = {} /\ Active' = {}
    BY <1>5, <2>2 DEF Join, Active, Running
  <2>4. Promise!Close
    BY <1>5, <2>2, <2>3 DEF Join, Promise!Close, Active
  <2> QED
    BY <2>4 DEF Promise!Next
<1>6. CASE LockToPush \/ NotifyOne \/ LockToStop \/ SetStop \/ NotifyAll
  <2>1. /\ tasks' = tasks /\ finished' = finished /\ cur' = cur
        /\ (mpc = "destroyed")' = (mpc = "destroyed")
    BY <1>6 DEF LockToPush, NotifyOne, LockToStop, SetStop, NotifyAll
  <2>2. Running' = Running
    BY <1>6 DEF LockToPush, NotifyOne, LockToStop, SetStop, NotifyAll, Running, Waiting
  <2> QED
    BY <2>1, <2>2, Stutter DEF Active
<1>7. CASE UNCHANGED vars
  BY <1>7, Stutter DEF vars, Active, Running
<1> QED
  BY <1>1, <1>2, <1>3, <1>4, <1>5, <1>6, <1>7 DEF Next, WorkerStep, OwnerStep

\* The pool runs the tasks in the order they were enqueued, each once, and its
\* destructor returns only when all of them have run.
THEOREM PoolKeepsPromise == Spec => KeepsPromise
<1>1. Init => Distinct /\ Promise!Init
  BY ThreadpoolAssumption, EmptySeq
     DEF Init, Distinct, Promise!Init, Running, ThreadpoolAssumption
<1> QED
  BY <1>1, ShapeInit, ShapeNext, DistinctNext, StepRefines, PTL
     DEF Spec, KeepsPromise, Promise!Spec
-----------------------------------------------------------------------------
(* No deadlock *)

Joined == mpc = "destroyed" => \A w \in Worker : wpc[w] = "exited"

LEMMA JoinedNext == TypeOK /\ Shape /\ Joined /\ [Next]_vars => Joined'
<1> SUFFICES ASSUME TypeOK, Shape, Joined, [Next]_vars PROVE Joined'
  OBVIOUS
<1> USE DEF TypeOK, Joined
<1>1. ASSUME NEW w \in Worker, WorkerStep(w) \/ WakeSpuriously(w) PROVE Joined'
  BY <1>1 DEF WorkerStep, Acquire, Sleep, Take, Complete, Exit, WakeSpuriously
<1>2. CASE OwnerStep \/ LockToPush \/ LockToStop
  BY <1>2 DEF OwnerStep, Push, NotifyOne, SetStop, NotifyAll, Join, LockToPush, LockToStop
<1>3. CASE UNCHANGED vars
  BY <1>3 DEF vars
<1> QED
  BY <1>1, <1>2, <1>3 DEF Next

\* A worker can take a step by itself: it has the mutex, or the mutex is free,
\* or it runs a task.
WorkerCanGo == \E w \in Worker : \/ wpc[w] \in {"test", "run"}
                                 \/ wpc[w] = "acquire" /\ mtx = None

\* So can the owner, in the middle of a call of the pool.
OwnerCanGo == \/ mpc \in {"push", "notify", "stop", "notifyAll"}
              \/ mpc = "join" /\ \A w \in Worker : wpc[w] = "exited"

\* Nothing is left to do until the owner calls again, or ever.
AtRest == mpc = "idle" /\ tasks = <<>> /\ \A w \in Worker : wpc[w] = "waiting"
Gone   == mpc = "destroyed" /\ tasks = <<>> /\ \A w \in Worker : wpc[w] = "exited"

\* The threads of the pool and its owner never all wait for one another: as
\* long as a task is queued or running, or a call of the pool has not returned,
\* one of them can go on.
THEOREM SomebodyCanGo == Spec => [](WorkerCanGo \/ OwnerCanGo \/ AtRest \/ Gone)
<1>1. Init => NoLostWakeup /\ NoSleepWhileJoining /\ Joined
  BY EmptySeq DEF Init, NoLostWakeup, NoSleepWhileJoining, Joined, Waiting
<1>2. TypeOK /\ Shape /\ NoLostWakeup /\ NoSleepWhileJoining /\ Joined
      => WorkerCanGo \/ OwnerCanGo \/ AtRest \/ Gone
  <2> SUFFICES ASSUME TypeOK, Shape, NoLostWakeup, NoSleepWhileJoining, Joined,
                      ~WorkerCanGo, ~OwnerCanGo
               PROVE  AtRest \/ Gone
    OBVIOUS
  <2>1. mpc \in {"idle", "join", "destroyed"}
    BY DEF OwnerCanGo, TypeOK
  <2>2. mtx = None
    BY <2>1 DEF WorkerCanGo, TypeOK, Shape
  <2>3. \A w \in Worker : wpc[w] \in {"waiting", "exited"}
    BY <2>2 DEF WorkerCanGo, TypeOK
  <2>4. PICK w \in Worker : TRUE
    BY ThreadpoolAssumption DEF ThreadpoolAssumption
  <2>5. CASE mpc = "idle"
    <3>1. \A v \in Worker : wpc[v] = "waiting"
      BY <2>3, <2>5 DEF Shape
    <3>2. Awake = {} /\ Waiting # {}
      BY <2>4, <3>1 DEF Awake, Waiting
    <3>3. Len(tasks) <= 0
      BY <2>5, <3>2, FS_EmptySet DEF NoLostWakeup
    <3>4. tasks = <<>>
      BY <3>3, EmptySeq, LenProperties DEF TypeOK
    <3> QED
      BY <2>5, <3>1, <3>4 DEF AtRest
  <2>6. CASE mpc = "destroyed"
    BY <2>4, <2>6 DEF Gone, Joined, Shape
  <2>7. CASE mpc = "join"
    BY <2>3, <2>7 DEF NoSleepWhileJoining, Waiting, OwnerCanGo
  <2> QED
    BY <2>1, <2>5, <2>6, <2>7
<1> QED
  BY <1>1, <1>2, Shaped, NoLostWakeupNext, NoSleepNext, JoinedNext, PTL DEF Spec
=============================================================================
