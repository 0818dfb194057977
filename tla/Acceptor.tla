------------------------------ MODULE Acceptor ------------------------------
(***************************************************************************)
(* From the listening socket to a thread of the pool: the loop of main,    *)
(* which accepts a connection, makes the TLS handshake in the same thread, *)
(* and hands the connection to the pool; the clients that connect; and the *)
(* descriptors, which are not all given back.                              *)
(*                                                                         *)
(* The pool is what TaskQueue says, with Threads threads to run the tasks. *)
(* A client is its one connection; a task is named by its client.          *)
(***************************************************************************)
EXTENDS Integers, Sequences, FiniteSets, SequencesExt

CONSTANTS Client,
          Silent,    \* the clients that connect and then say nothing
          Threads,   \* of the pool
          MaxFds,    \* the connections for which the process has descriptors
          None

ASSUME AcceptorAssumption ==
    /\ IsFiniteSet(Client) /\ Silent \subseteq Client /\ None \notin Client
    /\ Threads \in Nat \ {0} /\ MaxFds \in Nat \ {0}

VARIABLES
    cpc,       \* of each client: "outside", "connected", "greeted" once it has
               \* made its part of the handshake, then "hungUp", or "left" without
    backlog,   \* connections that the kernel holds for the next accept
    current,   \* whose handshake the accepting thread makes, or None
    open,      \* the connections whose descriptor the server has
    freed,     \* tasks whose SSL handle has been freed
    refused,   \* connections closed without a task
    queue, running, finished, closed,   \* of the pool, which is never destroyed
    arrived    \* history: the clients in the order in which they connected

pool == <<queue, running, finished, closed>>
vars == <<cpc, backlog, current, open, freed, refused, pool, arrived>>

Pool == INSTANCE TaskQueue WITH Task <- Client

Init ==
    /\ cpc = [c \in Client |-> "outside"]
    /\ backlog = <<>> /\ arrived = <<>>
    /\ current = None
    /\ open = {} /\ freed = {} /\ refused = {}
    /\ Pool!Init
-----------------------------------------------------------------------------
(* The clients *)

Connect(c) ==
    /\ cpc[c] = "outside"
    /\ cpc' = [cpc EXCEPT ![c] = "connected"]
    /\ backlog' = Append(backlog, c)
    /\ arrived' = Append(arrived, c)
    /\ UNCHANGED <<current, open, freed, refused, pool>>

\* SSL_connect returns: the client has sent its last message of the handshake.
Greet(c) ==
    /\ c \notin Silent
    /\ cpc[c] = "connected" /\ current = c
    /\ cpc' = [cpc EXCEPT ![c] = "greeted"]
    /\ UNCHANGED <<backlog, current, open, freed, refused, pool, arrived>>

HangUp(c) == cpc' = [cpc EXCEPT ![c] = IF @ = "greeted" THEN "hungUp" ELSE "left"]

\* The client's user leaves, who has been served; or its connection was closed.
Exit(c) ==
    /\ \/ cpc[c] = "greeted" /\ c \in running
       \/ cpc[c] \in {"connected", "greeted"} /\ c \in refused
    /\ HangUp(c)
    /\ UNCHANGED <<backlog, current, open, freed, refused, pool, arrived>>

\* It does not trust the certificate, its program is stopped, or the network fails.
GiveUp(c) ==
    /\ cpc[c] \in {"connected", "greeted"}
    /\ HangUp(c)
    /\ UNCHANGED <<backlog, current, open, freed, refused, pool, arrived>>
-----------------------------------------------------------------------------
(* The loop of main *)

\* Mutant: the newest connection is taken.
AcceptNewest ==
    /\ current = None
    /\ backlog # <<>> /\ Cardinality(open) < MaxFds
    /\ current' = Last(backlog)
    /\ backlog' = Front(backlog)
    /\ open' = open \cup {Last(backlog)}
    /\ UNCHANGED <<cpc, freed, refused, pool, arrived>>

\* BIO_do_accept and BIO_pop, and SSL_new.  Without a descriptor BIO_do_accept
\* fails, and the loop goes round: nothing changes.
Accept ==
    /\ current = None
    /\ backlog # <<>> /\ Cardinality(open) < MaxFds
    /\ current' = Head(backlog)
    /\ backlog' = Tail(backlog)
    /\ open' = open \cup {Head(backlog)}
    /\ UNCHANGED <<cpc, freed, refused, pool, arrived>>

\* SSL_new fails: the connection is closed.
AcceptWithoutHandle ==
    /\ current = None
    /\ backlog # <<>> /\ Cardinality(open) < MaxFds
    /\ refused' = refused \cup {Head(backlog)}
    /\ backlog' = Tail(backlog)
    /\ UNCHANGED <<cpc, current, open, freed, pool, arrived>>

\* Mutant: the lambda captures ssl by reference.
EnqueueByReference ==
    /\ current # None
    /\ cpc[current] \in {"greeted", "hungUp"}
    /\ current' = None
    /\ queue' = Append(queue, current')
    /\ UNCHANGED <<cpc, backlog, open, freed, refused, running, finished, closed, arrived>>

\* SSL_accept succeeds, perhaps after the client has gone, and the connection
\* goes to the pool.
Enqueue ==
    /\ current # None
    /\ cpc[current] \in {"greeted", "hungUp"}
    /\ Pool!Submit(current)
    /\ current' = None
    /\ UNCHANGED <<cpc, backlog, open, freed, refused, arrived>>

\* Mutant: the handle of a failed handshake is forgotten.
HandshakeFailsUnfreed ==
    /\ current # None
    /\ cpc[current] \in {"left", "hungUp"}
    /\ refused' = refused \cup {current}
    /\ current' = None
    /\ UNCHANGED <<cpc, backlog, open, freed, pool, arrived>>

\* The client went away: SSL_accept fails, and SSL_free closes the connection.
HandshakeFails ==
    /\ current # None
    /\ cpc[current] \in {"left", "hungUp"}
    /\ open' = open \ {current}
    /\ refused' = refused \cup {current}
    /\ current' = None
    /\ UNCHANGED <<cpc, backlog, freed, pool, arrived>>
-----------------------------------------------------------------------------
(* The threads of the pool *)

\* A thread takes the oldest task.
Start ==
    /\ Cardinality(running) < Threads
    /\ Pool!Start
    /\ UNCHANGED <<cpc, backlog, current, open, freed, refused, arrived>>

\* Mutant: the loop goes on when a read fails.
HandlerContinues(c) ==
    /\ c \in freed
    /\ Pool!Finish(c)
    /\ UNCHANGED <<cpc, backlog, current, open, freed, refused, arrived>>

\* handler() reads until a read fails, and returns.  Nobody frees the handle.
HandlerEnds(c) ==
    /\ cpc[c] = "hungUp" \/ c \in freed
    /\ Pool!Finish(c)
    /\ UNCHANGED <<cpc, backlog, current, open, freed, refused, arrived>>

\* listFiles frees the handle after a failed write, and the loop goes on.
ListFails(c) ==
    /\ c \in running \ freed
    /\ cpc[c] = "hungUp"
    /\ open' = open \ {c}
    /\ freed' = freed \cup {c}
    /\ UNCHANGED <<cpc, backlog, current, refused, pool, arrived>>

\* An exception (memory) leaves handler(): the task shuts the connection and frees
\* it.  If listFiles has freed it before, this is undefined; of the outcomes only
\* the one in which nothing more happens is modelled.
HandlerThrows(c) ==
    /\ Pool!Finish(c)
    /\ open' = open \ {c}
    /\ freed' = freed \cup {c}
    /\ refused' = refused \cup {c}
    /\ UNCHANGED <<cpc, backlog, current, arrived>>
-----------------------------------------------------------------------------
ClientStep(c)  == Connect(c) \/ Greet(c) \/ Exit(c) \/ GiveUp(c)
MainStep       == Accept \/ AcceptWithoutHandle \/ Enqueue \/ HandshakeFails
HandlerStep(c) == HandlerEnds(c) \/ ListFails(c) \/ HandlerThrows(c)

Next == \/ MainStep \/ Start
        \/ \E c \in Client : ClientStep(c) \/ HandlerStep(c)

Spec == Init /\ [][Next]_vars

\* The threads run, a client that is not silent makes its part of the handshake,
\* and the user of a client that is served leaves some day.
FairSpec ==
    /\ Spec
    /\ WF_vars(MainStep) /\ WF_vars(Start)
    /\ \A c \in Client : WF_vars(Greet(c)) /\ WF_vars(Exit(c)) /\ WF_vars(HandlerEnds(c))
-----------------------------------------------------------------------------
(* Properties *)

TypeOK ==
    /\ cpc \in [Client -> {"outside", "connected", "greeted", "hungUp", "left"}]
    /\ backlog \in Seq(Client) /\ arrived \in Seq(Client)
    /\ current \in Client \cup {None}
    /\ open \subseteq Client /\ freed \subseteq Client /\ refused \subseteq Client
    /\ queue \in Seq(Client)
    /\ running \subseteq Client /\ finished \subseteq Client /\ closed = FALSE

\* The descriptors in use are those of the handshake that is being made, of the
\* clients that wait for a thread, and of every client that ever had one, unless
\* a failure freed its handle: a handshake that fails gives its descriptor back,
\* a session that ends as it should does not.  The server can end at most MaxFds
\* sessions in its life.
DescriptorsKept ==
    /\ open = ({current} \ {None}) \cup ToSet(queue) \cup ((running \cup finished) \ freed)
    /\ Cardinality(open) <= MaxFds

Served == running \cup finished

\* No client is served before another that connected earlier, through backlog,
\* handshake and pool, unless the earlier one was turned away.
ServedInTurn ==
    \A i, j \in 1 .. Len(arrived) :
        i < j /\ arrived[j] \in Served => arrived[i] \in Served \cup refused

Stalled   == current \in Silent
Exhausted == current = None /\ backlog # <<>> /\ Cardinality(open) >= MaxFds

\* Every client gets a thread, is turned away, or leaves, unless the accepting
\* thread waits for ever in a handshake or has no descriptor left for ever:
\* nothing else in the way from the socket to the thread can hold up a client.
EveryoneServed ==
    \/ <>[]Stalled
    \/ <>[]Exhausted
    \/ \A c \in Client \ Silent :
           cpc[c] = "connected" ~> \/ c \in Served \cup refused
                                  \/ cpc[c] \in {"left", "hungUp"}
=============================================================================
