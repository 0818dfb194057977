------------------------------ MODULE Dialogue ------------------------------
(***************************************************************************)
(* What a user of the client takes a connection to be: one command at a    *)
(* time, each answered once, with an answer to that command, before the    *)
(* next one is asked.  Connection implements it until one side slips or    *)
(* the connection breaks.                                                  *)
(***************************************************************************)
CONSTANTS Command,    \* what can be asked
          Answers,    \* by command, what can be answered
          None

VARIABLES asked,      \* the command that waits for its answer
          answer,     \* the answer that its sender has not seen yet
          over        \* nothing is promised any more

vars == <<asked, answer, over>>

Init == asked = None /\ answer = None /\ over = FALSE

Ask(o) ==
    /\ ~over /\ asked = None
    /\ asked' = o
    /\ UNCHANGED <<answer, over>>

Answer(a) ==
    /\ asked # None /\ answer = None
    /\ a \in Answers[asked]
    /\ answer' = a
    /\ UNCHANGED <<asked, over>>

Learn ==
    /\ answer # None
    /\ asked' = None /\ answer' = None
    /\ UNCHANGED over

GiveUp == asked' = None /\ answer' = None /\ over' = TRUE

Next == \/ \E o \in Command : Ask(o) \/ \E a \in Answers[o] : Answer(a)
        \/ Learn \/ GiveUp

Spec == Init /\ [][Next]_vars
=============================================================================
