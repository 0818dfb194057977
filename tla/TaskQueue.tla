----------------------------- MODULE TaskQueue -----------------------------
(***************************************************************************)
(* What Threadpool promises to its caller: the tasks handed over are run   *)
(* in the order they came, each once, and the pool is gone only when every *)
(* one of them has run.  Threadpool implements this specification.         *)
(***************************************************************************)
EXTENDS Sequences, SequencesExt

CONSTANT Task

VARIABLES queue,     \* the tasks that wait for a thread
          running,   \* the tasks that a thread is running
          finished,  \* the tasks that have run
          closed     \* the destructor has returned

vars == <<queue, running, finished, closed>>

Init ==
    /\ queue = <<>>
    /\ running = {}
    /\ finished = {}
    /\ closed = FALSE

Submit(t) ==
    /\ ~closed
    /\ t \notin ToSet(queue) \cup running \cup finished
    /\ queue' = Append(queue, t)
    /\ UNCHANGED <<running, finished, closed>>

Start ==
    /\ queue # <<>>
    /\ queue' = Tail(queue)
    /\ running' = running \cup {Head(queue)}
    /\ UNCHANGED <<finished, closed>>

Finish(t) ==
    /\ t \in running
    /\ running' = running \ {t}
    /\ finished' = finished \cup {t}
    /\ UNCHANGED <<queue, closed>>

Close ==
    /\ ~closed
    /\ queue = <<>> /\ running = {}
    /\ closed' = TRUE
    /\ UNCHANGED <<queue, running, finished>>

Next == Start \/ Close \/ \E t \in Task : Submit(t) \/ Finish(t)

Spec == Init /\ [][Next]_vars
=============================================================================
