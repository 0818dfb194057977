--------------------------- MODULE AcceptorProofs ---------------------------
(***************************************************************************)
(* Proofs about Acceptor for every set of clients and every number of      *)
(* threads and descriptors.                                                *)
(***************************************************************************)
EXTENDS Acceptor, FiniteSetTheorems, SequenceTheorems, TLAPS

\* a stands somewhere before b in the sequence s.
Before(s, a, b) == \E i, j \in 1 .. Len(s) : i < j /\ s[i] = a /\ s[j] = b

LEMMA ToSetIs ==
    ASSUME NEW S, NEW s \in Seq(S)
    PROVE  ToSet(s) = {s[i] : i \in 1 .. Len(s)} /\ ToSet(s) \subseteq S
<1>1. DOMAIN s = 1 .. Len(s) /\ \A i \in 1 .. Len(s) : s[i] \in S
  BY LenProperties, ElementOfSeq
<1> QED
  BY <1>1 DEF ToSet

LEMMA EmptyBefore == ToSet(<<>>) = {} /\ \A a, b : ~Before(<<>>, a, b)
  BY EmptySeq DEF ToSet, Before

\* What a new last element changes.
LEMMA AppendBefore ==
    ASSUME NEW S, NEW s \in Seq(S), NEW x \in S
    PROVE  /\ Append(s, x) \in Seq(S)
           /\ ToSet(Append(s, x)) = ToSet(s) \cup {x}
           /\ \A a, b : Before(Append(s, x), a, b) <=>
                          Before(s, a, b) \/ (a \in ToSet(s) /\ b = x)
<1>0. Len(s) \in Nat
  BY LenProperties
<1>1. /\ Append(s, x) \in Seq(S) /\ Len(Append(s, x)) = Len(s) + 1
      /\ \A i \in 1 .. Len(s) : Append(s, x)[i] = s[i]
      /\ Append(s, x)[Len(s) + 1] = x
  BY AppendProperties
<1> DEFINE t == Append(s, x)
<1>2. /\ Len(t) = Len(s) + 1 /\ t[Len(s) + 1] = x
      /\ \A i \in 1 .. Len(s) : t[i] = s[i]
  BY <1>1
<1>3. ToSet(s) = {s[i] : i \in 1 .. Len(s)} /\ ToSet(t) = {t[i] : i \in 1 .. Len(t)}
  BY <1>1, ToSetIs
<1> HIDE DEF t
<1>4. ToSet(t) = ToSet(s) \cup {x}
  BY <1>0, <1>2, <1>3
<1>5. ASSUME NEW a, NEW b, Before(t, a, b)
      PROVE  Before(s, a, b) \/ (a \in ToSet(s) /\ b = x)
  <2>1. PICK i, j \in 1 .. Len(t) : i < j /\ t[i] = a /\ t[j] = b
    BY <1>5 DEF Before
  <2>2. i \in 1 .. Len(s) /\ s[i] = a
    BY <1>0, <1>2, <2>1
  <2>3. CASE j = Len(s) + 1
    BY <1>2, <1>3, <2>1, <2>2, <2>3
  <2>4. CASE j # Len(s) + 1
    <3>1. j \in 1 .. Len(s) /\ s[j] = b
      BY <1>0, <1>2, <2>1, <2>4
    <3> QED
      BY <2>1, <2>2, <3>1 DEF Before
  <2> QED
    BY <2>3, <2>4
<1>6. ASSUME NEW a, NEW b, Before(s, a, b)
      PROVE  Before(t, a, b)
  <2>1. PICK i, j \in 1 .. Len(s) : i < j /\ s[i] = a /\ s[j] = b
    BY <1>6 DEF Before
  <2>2. i \in 1 .. Len(t) /\ j \in 1 .. Len(t) /\ t[i] = a /\ t[j] = b
    BY <1>0, <1>2, <2>1
  <2> QED
    BY <2>1, <2>2 DEF Before
<1>7. ASSUME NEW a \in ToSet(s)
      PROVE  Before(t, a, x)
  <2>1. PICK i \in 1 .. Len(s) : s[i] = a
    BY <1>3
  <2>2. /\ i \in 1 .. Len(t) /\ Len(s) + 1 \in 1 .. Len(t) /\ i < Len(s) + 1
        /\ t[i] = a /\ t[Len(s) + 1] = x
    BY <1>0, <1>2, <2>1
  <2> QED
    BY <2>2 DEF Before
<1> QED
  BY <1>1, <1>4, <1>5, <1>6, <1>7 DEF t

\* What is left without the first element.
LEMMA TailBefore ==
    ASSUME NEW S, NEW s \in Seq(S), s # <<>>
    PROVE  /\ Head(s) \in S /\ Tail(s) \in Seq(S)
           /\ ToSet(s) = {Head(s)} \cup ToSet(Tail(s))
           /\ \A a, b : Before(s, a, b) <=>
                          Before(Tail(s), a, b) \/ (a = Head(s) /\ b \in ToSet(Tail(s)))
<1>1. /\ Head(s) \in S /\ Head(s) = s[1] /\ Tail(s) \in Seq(S) /\ Len(Tail(s)) = Len(s) - 1
      /\ \A i \in 1 .. Len(s) - 1 : Tail(s)[i] = s[i + 1]
  BY HeadTailProperties, ElementOfSeq
<1>2. Len(s) \in Nat /\ Len(s) >= 1
  BY EmptySeq, LenProperties
<1> DEFINE t == Tail(s)
           h == Head(s)
<1>3. /\ Len(t) = Len(s) - 1 /\ h = s[1]
      /\ \A i \in 1 .. Len(t) : t[i] = s[i + 1]
  BY <1>1
<1>4. ToSet(s) = {s[i] : i \in 1 .. Len(s)} /\ ToSet(t) = {t[i] : i \in 1 .. Len(t)}
  BY <1>1, ToSetIs
<1> HIDE DEF t, h
<1>5. \A i \in 1 .. Len(s) : i = 1 \/ (i - 1 \in 1 .. Len(t) /\ s[i] = t[i - 1])
  BY <1>2, <1>3
<1>6. \A i \in 1 .. Len(t) : i + 1 \in 1 .. Len(s) /\ t[i] = s[i + 1]
  BY <1>2, <1>3
<1>7. ToSet(s) = {h} \cup ToSet(t)
  <2>1. 1 \in 1 .. Len(s)
    BY <1>2
  <2> QED
    BY <1>3, <1>4, <1>5, <1>6, <2>1
<1>8. ASSUME NEW a, NEW b, Before(s, a, b)
      PROVE  Before(t, a, b) \/ (a = h /\ b \in ToSet(t))
  <2>1. PICK i, j \in 1 .. Len(s) : i < j /\ s[i] = a /\ s[j] = b
    BY <1>8 DEF Before
  <2>2. j - 1 \in 1 .. Len(t) /\ t[j - 1] = b
    BY <1>2, <1>5, <2>1
  <2>3. CASE i = 1
    BY <1>3, <1>4, <2>1, <2>2, <2>3
  <2>4. CASE i # 1
    <3>1. i - 1 \in 1 .. Len(t) /\ t[i - 1] = a /\ i - 1 < j - 1
      BY <1>2, <1>5, <2>1, <2>4
    <3> QED
      BY <2>2, <3>1 DEF Before
  <2> QED
    BY <2>3, <2>4
<1>9. ASSUME NEW a, NEW b, Before(t, a, b)
      PROVE  Before(s, a, b)
  <2>1. PICK i, j \in 1 .. Len(t) : i < j /\ t[i] = a /\ t[j] = b
    BY <1>9 DEF Before
  <2>2. /\ i + 1 \in 1 .. Len(s) /\ j + 1 \in 1 .. Len(s) /\ i + 1 < j + 1
        /\ s[i + 1] = a /\ s[j + 1] = b
    BY <1>2, <1>6, <2>1
  <2> QED
    BY <2>2 DEF Before
<1>10. ASSUME NEW b \in ToSet(t)
       PROVE  Before(s, h, b)
  <2>1. PICK j \in 1 .. Len(t) : t[j] = b
    BY <1>4
  <2>2. /\ 1 \in 1 .. Len(s) /\ j + 1 \in 1 .. Len(s) /\ 1 < j + 1
        /\ s[1] = h /\ s[j + 1] = b
    BY <1>2, <1>3, <1>6, <2>1
  <2> QED
    BY <2>2 DEF Before
<1> QED
  BY <1>1, <1>7, <1>8, <1>9, <1>10 DEF t, h

\* Where nothing stands before itself, no two stand before each other.
LEMMA Antisymmetric ==
    ASSUME NEW S, NEW s \in Seq(S), \A c : ~Before(s, c, c)
    PROVE  \A a, b : ~(Before(s, a, b) /\ Before(s, b, a))
<1> SUFFICES ASSUME NEW a, NEW b, Before(s, a, b), Before(s, b, a) PROVE FALSE
  OBVIOUS
<1>1. PICK i, j \in 1 .. Len(s) : i < j /\ s[i] = a /\ s[j] = b
  BY DEF Before
<1>2. PICK k, l \in 1 .. Len(s) : k < l /\ s[k] = b /\ s[l] = a
  BY DEF Before
<1>3. Len(s) \in Nat
  BY LenProperties
<1>4. i < l => Before(s, a, a)
  BY <1>1, <1>2 DEF Before
<1>5. k < j => Before(s, b, b)
  BY <1>1, <1>2 DEF Before
<1> QED
  BY <1>1, <1>2, <1>3, <1>4, <1>5
-----------------------------------------------------------------------------
(* Types *)

LEMMA TypeInit == Init => TypeOK
  BY EmptySeq DEF Init, TypeOK, Pool!Init

LEMMA TypeNext == TypeOK /\ [Next]_vars => TypeOK'
<1> SUFFICES ASSUME TypeOK, [Next]_vars PROVE TypeOK'
  OBVIOUS
<1>1. ASSUME NEW c \in Client, Connect(c) PROVE TypeOK'
  <2>1. backlog' \in Seq(Client) /\ arrived' \in Seq(Client)
    BY <1>1, AppendProperties DEF Connect, TypeOK
  <2> QED
    BY <1>1, <2>1 DEF Connect, TypeOK, pool
<1>2. ASSUME NEW c \in Client, Greet(c) \/ Exit(c) \/ GiveUp(c) PROVE TypeOK'
  BY <1>2 DEF Greet, Exit, GiveUp, HangUp, TypeOK, pool
<1>3. CASE Accept \/ AcceptWithoutHandle
  <2>1. Head(backlog) \in Client /\ Tail(backlog) \in Seq(Client)
    BY <1>3, TailBefore DEF Accept, AcceptWithoutHandle, TypeOK
  <2> QED
    BY <1>3, <2>1 DEF Accept, AcceptWithoutHandle, TypeOK, pool
<1>4. CASE Enqueue
  <2>1. current \in Client /\ queue' = Append(queue, current)
    BY <1>4 DEF Enqueue, Pool!Submit, TypeOK
  <2>2. queue' \in Seq(Client)
    BY <2>1, AppendProperties DEF TypeOK
  <2> QED
    BY <1>4, <2>1, <2>2 DEF Enqueue, Pool!Submit, TypeOK
<1>5. CASE HandshakeFails
  BY <1>5 DEF HandshakeFails, TypeOK, pool
<1>6. CASE Start
  <2>1. Head(queue) \in Client /\ Tail(queue) \in Seq(Client)
    BY <1>6, TailBefore DEF Start, Pool!Start, TypeOK
  <2> QED
    BY <1>6, <2>1 DEF Start, Pool!Start, TypeOK
<1>7. ASSUME NEW c \in Client, HandlerStep(c) PROVE TypeOK'
  BY <1>7 DEF HandlerStep, HandlerEnds, ListFails, HandlerThrows, Pool!Finish, TypeOK, pool
<1>8. CASE UNCHANGED vars
  BY <1>8 DEF vars, pool, TypeOK
<1> QED
  BY <1>1, <1>2, <1>3, <1>4, <1>5, <1>6, <1>7, <1>8 DEF Next, MainStep, ClientStep

\* Every variable keeps its type.
THEOREM Typing == Spec => []TypeOK
  BY TypeInit, TypeNext, PTL DEF Spec
-----------------------------------------------------------------------------
(* The line in which the clients wait *)

Waiting == ToSet(queue) \cup ({current} \ {None}) \cup ToSet(backlog)

\* a waits before b.
Ahead(a, b) ==
    \/ Before(queue, a, b)
    \/ a \in ToSet(queue) /\ b \in ({current} \ {None}) \cup ToSet(backlog)
    \/ a \in {current} \ {None} /\ b \in ToSet(backlog)
    \/ Before(backlog, a, b)

\* Who waits came in that order, and after everyone who has been served.
Line ==
    /\ \A c \in Client : ~Before(arrived, c, c)
    /\ \A c \in Client : cpc[c] = "outside" => c \notin ToSet(arrived)
    /\ Waiting \cup Served \subseteq ToSet(arrived)
    /\ ToSet(arrived) \subseteq Waiting \cup Served \cup refused
    /\ \A a, b \in Client : Ahead(a, b) => Before(arrived, a, b)
    /\ \A w \in Waiting, s \in Served : w # s /\ ~Before(arrived, w, s)

LEMMA LineInit == Init => Line
  BY EmptyBefore DEF Init, Line, Waiting, Served, Ahead, Pool!Init

\* Clients that stand in a sequence one before the other are both in it.
LEMMA BothIn ==
    ASSUME NEW S, NEW s \in Seq(S), NEW a, NEW b, Before(s, a, b)
    PROVE  a \in ToSet(s) /\ b \in ToSet(s)
  BY ToSetIs DEF Before

LEMMA LineNext == TypeOK /\ Line /\ [Next]_vars => Line'
<1> SUFFICES ASSUME TypeOK, Line, [Next]_vars PROVE Line'
  OBVIOUS
<1>0. /\ backlog \in Seq(Client) /\ arrived \in Seq(Client) /\ queue \in Seq(Client)
      /\ ToSet(backlog) \subseteq Client /\ ToSet(arrived) \subseteq Client
      /\ ToSet(queue) \subseteq Client /\ running \subseteq Client /\ finished \subseteq Client
      /\ cpc \in [Client -> {"outside", "connected", "greeted", "hungUp", "left"}]
  BY ToSetIs DEF TypeOK
<1>1. ASSUME NEW c \in Client, Connect(c) PROVE Line'
  <2>1. /\ ToSet(backlog') = ToSet(backlog) \cup {c}
        /\ \A a, b : Before(backlog', a, b) <=>
                       Before(backlog, a, b) \/ (a \in ToSet(backlog) /\ b = c)
    BY <1>0, <1>1, AppendBefore DEF Connect
  <2>2. /\ ToSet(arrived') = ToSet(arrived) \cup {c}
        /\ \A a, b : Before(arrived', a, b) <=>
                       Before(arrived, a, b) \/ (a \in ToSet(arrived) /\ b = c)
    BY <1>0, <1>1, AppendBefore DEF Connect
  <2>3. c \notin ToSet(arrived) /\ cpc'[c] # "outside"
    BY <1>0, <1>1 DEF Connect, Line
  <2>4. /\ UNCHANGED <<current, queue, refused, running, finished>>
        /\ \A x \in Client \ {c} : cpc'[x] = cpc[x]
    BY <1>0, <1>1 DEF Connect, pool
  <2>5. Waiting' = Waiting \cup {c} /\ Served' = Served
    BY <2>1, <2>4 DEF Waiting, Served
  <2>6. \A a, b : Ahead(a, b)' => Ahead(a, b) \/ (a \in Waiting /\ b = c)
    BY <2>1, <2>4 DEF Ahead, Waiting
  <2>7. Waiting \cup Served \subseteq ToSet(arrived)
    BY DEF Line
  <2>8. \A x \in Client : ~Before(arrived', x, x)
    BY <2>2, <2>3 DEF Line
  <2>9. \A x \in Client : cpc'[x] = "outside" => x \notin ToSet(arrived')
    BY <2>2, <2>3, <2>4 DEF Line
  <2>10. /\ Waiting' \cup Served' \subseteq ToSet(arrived')
         /\ ToSet(arrived') \subseteq Waiting' \cup Served' \cup refused'
    BY <2>2, <2>4, <2>5 DEF Line
  <2>11. \A a, b \in Client : Ahead(a, b)' => Before(arrived', a, b)
    BY <2>2, <2>6, <2>7 DEF Line
  <2>12. ASSUME NEW w \in Waiting', NEW s \in Served'
         PROVE  w # s /\ ~Before(arrived', w, s)
    <3>1. s # c /\ s \in Served
      BY <2>3, <2>5, <2>7
    <3>2. ~Before(arrived, c, s)
      BY <1>0, <2>3, BothIn
    <3> QED
      BY <2>2, <2>5, <3>1, <3>2 DEF Line
  <2> QED
    BY <2>8, <2>9, <2>10, <2>11, <2>12 DEF Line
<1>2. ASSUME NEW c \in Client, Greet(c) \/ Exit(c) \/ GiveUp(c) PROVE Line'
  <2>1. \A x \in Client : cpc'[x] = "outside" => cpc[x] = "outside"
    BY <1>0, <1>2 DEF Greet, Exit, GiveUp, HangUp
  <2>2. UNCHANGED <<backlog, current, refused, queue, running, finished, arrived>>
    BY <1>2 DEF Greet, Exit, GiveUp, pool
  <2> QED
    BY <2>1, <2>2 DEF Line, Waiting, Served, Ahead
<1>3. CASE Accept
  <2>1. /\ ToSet(backlog) = {Head(backlog)} \cup ToSet(backlog')
        /\ \A a, b : Before(backlog, a, b) <=>
              Before(backlog', a, b) \/ (a = Head(backlog) /\ b \in ToSet(backlog'))
        /\ Head(backlog) \in Client
    BY <1>0, <1>3, TailBefore DEF Accept
  <2>2. /\ current = None /\ current' = Head(backlog) /\ current' # None
        /\ UNCHANGED <<cpc, refused, queue, running, finished, arrived>>
    BY <1>3, <2>1, AcceptorAssumption DEF Accept, AcceptorAssumption, pool
  <2>3. Waiting' = Waiting /\ Served' = Served
    BY <2>1, <2>2 DEF Waiting, Served
  <2>4. \A a, b : Ahead(a, b)' => Ahead(a, b)
    BY <2>1, <2>2 DEF Ahead
  <2> QED
    BY <2>2, <2>3, <2>4 DEF Line
<1>4. CASE AcceptWithoutHandle
  <2>1. /\ ToSet(backlog) = {Head(backlog)} \cup ToSet(backlog')
        /\ \A a, b : Before(backlog', a, b) => Before(backlog, a, b)
    BY <1>0, <1>4, TailBefore DEF AcceptWithoutHandle
  <2>2. /\ refused' = refused \cup {Head(backlog)}
        /\ UNCHANGED <<cpc, current, queue, running, finished, arrived>>
    BY <1>4 DEF AcceptWithoutHandle, pool
  <2>3. Waiting' \subseteq Waiting /\ Waiting \subseteq Waiting' \cup refused' /\ Served' = Served
    BY <2>1, <2>2 DEF Waiting, Served
  <2>4. \A a, b : Ahead(a, b)' => Ahead(a, b)
    BY <2>1, <2>2 DEF Ahead
  <2> QED
    BY <2>2, <2>3, <2>4 DEF Line
<1>5. CASE HandshakeFails
  <2>1. /\ refused' = refused \cup {current} /\ current' = None
        /\ UNCHANGED <<cpc, backlog, queue, running, finished, arrived>>
    BY <1>5 DEF HandshakeFails, pool
  <2>2. Waiting' \subseteq Waiting /\ Waiting \subseteq Waiting' \cup refused' /\ Served' = Served
    BY <2>1 DEF Waiting, Served
  <2>3. \A a, b : Ahead(a, b)' => Ahead(a, b)
    BY <2>1 DEF Ahead
  <2> QED
    BY <2>1, <2>2, <2>3 DEF Line
<1>6. CASE Enqueue
  <2>1. /\ current \in Client /\ current # None /\ current' = None
        /\ queue' = Append(queue, current)
        /\ UNCHANGED <<cpc, backlog, refused, running, finished, arrived>>
    BY <1>6 DEF Enqueue, Pool!Submit, TypeOK
  <2>2. /\ ToSet(queue') = ToSet(queue) \cup {current}
        /\ \A a, b : Before(queue', a, b) <=>
                       Before(queue, a, b) \/ (a \in ToSet(queue) /\ b = current)
    BY <1>0, <2>1, AppendBefore
  <2>3. Waiting' = Waiting /\ Served' = Served
    BY <2>1, <2>2 DEF Waiting, Served
  <2>4. \A a, b : Ahead(a, b)' => Ahead(a, b)
    BY <2>1, <2>2 DEF Ahead
  <2> QED
    BY <2>1, <2>3, <2>4 DEF Line
<1>9. CASE Start
  <2>1. queue # <<>> /\ queue' = Tail(queue) /\ running' = running \cup {Head(queue)}
    BY <1>9 DEF Start, Pool!Start
  <2>2. UNCHANGED <<cpc, backlog, current, refused, finished, arrived>>
    BY <1>9 DEF Start, Pool!Start
  <2>3. /\ ToSet(queue) = {Head(queue)} \cup ToSet(queue')
        /\ \A a, b : Before(queue, a, b) <=>
              Before(queue', a, b) \/ (a = Head(queue) /\ b \in ToSet(queue'))
        /\ Head(queue) \in Client
    BY <1>0, <2>1, TailBefore
  <2>4. Served' = Served \cup {Head(queue)} /\ Waiting = Waiting' \cup {Head(queue)}
    BY <2>1, <2>2, <2>3 DEF Waiting, Served
  <2>5. \A a, b : Ahead(a, b)' => Ahead(a, b)
    BY <2>2, <2>3 DEF Ahead
  <2>6. \A w \in Waiting' : w \in Client /\ Before(arrived, Head(queue), w)
    <3>1. \A w \in Waiting' : w \in Client /\ Ahead(Head(queue), w)
      BY <1>0, <2>2, <2>3 DEF Waiting, Ahead, TypeOK
    <3> QED
      BY <2>3, <3>1 DEF Line
  <2>7. \A w \in Waiting' : w # Head(queue) /\ ~Before(arrived, w, Head(queue))
    <3>1. \A x \in ToSet(arrived) : ~Before(arrived, x, x)
      BY <1>0 DEF Line
    <3>2. \A x : ~Before(arrived, x, x)
      BY <1>0, <3>1, BothIn
    <3>3. \A a, b : ~(Before(arrived, a, b) /\ Before(arrived, b, a))
      BY <1>0, <3>2, Antisymmetric
    <3> QED
      BY <2>6, <3>2, <3>3
  <2> QED
    BY <2>2, <2>4, <2>5, <2>7 DEF Line
<1>7. ASSUME NEW c \in Client, HandlerStep(c) PROVE Line'
  <2>1. /\ UNCHANGED <<cpc, backlog, current, queue, arrived>>
        /\ Served' = Served /\ refused \subseteq refused'
    BY <1>7 DEF HandlerStep, HandlerEnds, ListFails, HandlerThrows, Pool!Finish, pool, Served
  <2> QED
    BY <2>1 DEF Line, Waiting, Ahead
<1>8. CASE UNCHANGED vars
  BY <1>8 DEF vars, pool, Line, Waiting, Served, Ahead
<1> QED
  BY <1>1, <1>2, <1>3, <1>4, <1>5, <1>6, <1>7, <1>8, <1>9 DEF Next, MainStep, ClientStep

LEMMA LineInTurn == TypeOK /\ Line => ServedInTurn
<1> SUFFICES ASSUME TypeOK, Line,
                    NEW i \in 1 .. Len(arrived), NEW j \in 1 .. Len(arrived),
                    i < j, arrived[j] \in Served
             PROVE  arrived[i] \in Served \cup refused
  BY DEF ServedInTurn
<1>1. Before(arrived, arrived[i], arrived[j])
  BY DEF Before
<1>2. arrived[i] \in ToSet(arrived)
  BY ToSetIs DEF TypeOK
<1> QED
  BY <1>1, <1>2 DEF Line

\* No client is served before another that connected earlier, unless the
\* earlier one was turned away.
THEOREM InTurn == Spec => []ServedInTurn
  BY TypeInit, TypeNext, LineInit, LineNext, LineInTurn, PTL DEF Spec
-----------------------------------------------------------------------------
(* The descriptors *)

FreedServed == freed \subseteq Served

LEMMA DescriptorsInit == Init => DescriptorsKept /\ FreedServed
  BY EmptyBefore, FS_EmptySet, AcceptorAssumption
     DEF Init, DescriptorsKept, FreedServed, Served, Pool!Init, AcceptorAssumption

\* No more descriptors are in use after one is given back.
LEMMA NoMore ==
    ASSUME TypeOK, DescriptorsKept, open' \subseteq open
    PROVE  Cardinality(open') <= MaxFds
<1>1. IsFiniteSet(open)
  BY FS_Subset, AcceptorAssumption DEF TypeOK, AcceptorAssumption
<1>2. /\ Cardinality(open') <= Cardinality(open)
      /\ Cardinality(open) \in Nat /\ Cardinality(open') \in Nat
  BY <1>1, FS_Subset, FS_CardinalityType
<1> QED
  BY <1>2, AcceptorAssumption DEF DescriptorsKept, AcceptorAssumption

LEMMA DescriptorsNext ==
    TypeOK /\ Line /\ DescriptorsKept /\ FreedServed /\ [Next]_vars
    => DescriptorsKept' /\ FreedServed'
<1> SUFFICES ASSUME TypeOK, Line, DescriptorsKept, FreedServed, [Next]_vars
             PROVE  DescriptorsKept' /\ FreedServed'
  OBVIOUS
<1> DEFINE held == ({current} \ {None}) \cup ToSet(queue) \cup ((running \cup finished) \ freed)
<1>0. open = held /\ Cardinality(open) <= MaxFds
  BY DEF DescriptorsKept
<1>1. CASE Accept
  <2>1. /\ current = None /\ current' = Head(backlog) /\ open' = open \cup {Head(backlog)}
        /\ Cardinality(open) < MaxFds
        /\ UNCHANGED <<freed, queue, running, finished>>
    BY <1>1 DEF Accept, pool
  <2>2. Head(backlog) \in Client /\ Head(backlog) # None
    BY <1>1, TailBefore, AcceptorAssumption DEF Accept, TypeOK, AcceptorAssumption
  <2>3. IsFiniteSet(open) /\ Cardinality(open) \in Nat
    BY FS_Subset, FS_CardinalityType, AcceptorAssumption DEF TypeOK, AcceptorAssumption
  <2>4. Cardinality(open') <= MaxFds
    <3>1. \/ Cardinality(open \cup {Head(backlog)}) = Cardinality(open)
          \/ Cardinality(open \cup {Head(backlog)}) = Cardinality(open) + 1
      BY <2>3, FS_AddElement
    <3> QED
      BY <2>1, <2>3, <3>1, AcceptorAssumption DEF AcceptorAssumption
  <2>5. open' = held'
    BY <1>0, <2>1, <2>2
  <2> QED
    BY <2>1, <2>4, <2>5 DEF DescriptorsKept, FreedServed, Served
<1>2. CASE HandshakeFails
  <2>1. /\ current # None /\ current' = None /\ open' = open \ {current}
        /\ UNCHANGED <<freed, queue, running, finished>>
    BY <1>2 DEF HandshakeFails, pool
  <2>2. current \notin ToSet(queue) \cup Served
    <3>1. current \in Client /\ current \in Waiting
      BY <2>1 DEF TypeOK, Waiting
    <3>2. current \in ToSet(queue) => Ahead(current, current)
      BY <2>1 DEF Ahead
    <3> QED
      BY <3>1, <3>2 DEF Line
  <2>3. open' = held'
    BY <1>0, <2>1, <2>2 DEF Served
  <2> QED
    BY <2>1, <2>3, NoMore DEF DescriptorsKept, FreedServed, Served
<1>3. CASE Enqueue
  <2>1. /\ current \in Client /\ current # None /\ current' = None
        /\ queue' = Append(queue, current)
        /\ UNCHANGED <<open, freed, running, finished>>
    BY <1>3 DEF Enqueue, Pool!Submit, TypeOK
  <2>2. ToSet(queue') = ToSet(queue) \cup {current}
    BY <2>1, AppendBefore DEF TypeOK
  <2> QED
    BY <2>1, <2>2 DEF DescriptorsKept, FreedServed, Served
<1>4. CASE Start
  <2>1. /\ queue # <<>> /\ queue' = Tail(queue) /\ running' = running \cup {Head(queue)}
        /\ UNCHANGED <<current, open, freed, finished>>
    BY <1>4 DEF Start, Pool!Start
  <2>2. ToSet(queue) = {Head(queue)} \cup ToSet(queue')
    BY <2>1, TailBefore DEF TypeOK
  <2>3. Head(queue) \notin freed
    BY <2>2 DEF Line, Waiting, FreedServed
  <2>4. open' = held'
    BY <1>0, <2>1, <2>2, <2>3
  <2> QED
    BY <2>1, <2>4, NoMore DEF DescriptorsKept, FreedServed, Served
<1>5. ASSUME NEW c \in Client, HandlerStep(c) PROVE DescriptorsKept' /\ FreedServed'
  <2>1. UNCHANGED <<current, queue>> /\ c \in running
        /\ running' \cup finished' = running \cup finished
    BY <1>5 DEF HandlerStep, HandlerEnds, ListFails, HandlerThrows, Pool!Finish, pool
  <2>2. c \notin ({current} \ {None}) \cup ToSet(queue)
    BY <2>1 DEF Line, Waiting, Served
  <2>3. \/ open' = open /\ freed' = freed
        \/ open' = open \ {c} /\ freed' = freed \cup {c}
    BY <1>5 DEF HandlerStep, HandlerEnds, ListFails, HandlerThrows
  <2>4. open' = held'
    BY <1>0, <2>1, <2>2, <2>3
  <2>5. open' \subseteq open
    BY <2>3
  <2> QED
    BY <2>1, <2>3, <2>4, <2>5, NoMore DEF DescriptorsKept, FreedServed, Served
<1>6. CASE AcceptWithoutHandle \/ UNCHANGED vars \/ \E c \in Client : ClientStep(c)
  <2>1. UNCHANGED <<current, open, freed, queue, running, finished>>
    BY <1>6 DEF AcceptWithoutHandle, ClientStep, Connect, Greet, Exit, GiveUp, vars, pool
  <2> QED
    BY <2>1 DEF DescriptorsKept, FreedServed, Served
<1> QED
  BY <1>1, <1>2, <1>3, <1>4, <1>5, <1>6 DEF Next, MainStep

\* The descriptors in use are those of the handshake, of the queue, and of every
\* client that ever had a thread, unless a failure freed its handle.
THEOREM DescriptorsNeverGivenBack == Spec => []DescriptorsKept
  BY TypeInit, TypeNext, LineInit, LineNext, DescriptorsInit, DescriptorsNext, PTL DEF Spec
-----------------------------------------------------------------------------
(* One place for each client *)

\* A thread is given up before its client counts as finished.
Apart == running \cap finished = {}

LEMMA ApartNext == TypeOK /\ Line /\ Apart /\ [Next]_vars => Apart'
<1> SUFFICES ASSUME TypeOK, Line, Apart, [Next]_vars PROVE Apart'
  OBVIOUS
<1>1. CASE Start
  <2>1. /\ queue # <<>> /\ running' = running \cup {Head(queue)} /\ finished' = finished
    BY <1>1 DEF Start, Pool!Start
  <2>2. Head(queue) \in ToSet(queue)
    BY <2>1, TailBefore DEF TypeOK
  <2>3. Head(queue) \notin finished
    BY <2>2 DEF Line, Waiting, Served
  <2> QED
    BY <2>1, <2>3 DEF Apart
<1>2. ASSUME NEW c \in Client, HandlerStep(c) PROVE Apart'
  BY <1>2 DEF HandlerStep, HandlerEnds, ListFails, HandlerThrows, Pool!Finish, pool, Apart
<1>3. CASE \/ Accept \/ AcceptWithoutHandle \/ Enqueue \/ HandshakeFails \/ UNCHANGED vars
           \/ \E c \in Client : ClientStep(c)
  <2>1. UNCHANGED <<running, finished>>
    BY <1>3 DEF Accept, AcceptWithoutHandle, Enqueue, HandshakeFails, Pool!Submit,
       ClientStep, Connect, Greet, Exit, GiveUp, vars, pool
  <2> QED
    BY <2>1 DEF Apart
<1> QED
  BY <1>1, <1>2, <1>3 DEF Next, MainStep

LEMMA LineKept == Spec => [](TypeOK /\ Line /\ Apart)
<1>1. Init => Apart
  BY DEF Init, Apart, Pool!Init
<1> QED
  BY <1>1, TypeInit, TypeNext, LineInit, LineNext, ApartNext, PTL DEF Spec

\* A connection is in one place at a time: in the backlog, in its handshake,
\* once in the queue of the pool, on one thread, or finished.
InOnePlace ==
    /\ \A i, j \in 1 .. Len(queue) : queue[i] = queue[j] => i = j
    /\ ToSet(queue) \cap ToSet(backlog) = {}
    /\ current # None => current \notin ToSet(queue) \cup ToSet(backlog) \cup Served
    /\ (ToSet(queue) \cup ToSet(backlog)) \cap Served = {}
    /\ running \cap finished = {}

\* No connection is handed to the pool twice, and none comes back from it: the
\* lambda of main captures ssl and clientIp by value, one task per accepted connection.
THEOREM HandedOverOnce == Spec => []InOnePlace
<1>1. TypeOK /\ Line /\ Apart => InOnePlace
  <2> SUFFICES ASSUME TypeOK, Line, Apart PROVE InOnePlace
    OBVIOUS
  <2>0. /\ queue \in Seq(Client) /\ backlog \in Seq(Client)
        /\ ToSet(queue) \subseteq Client /\ Len(queue) \in Nat
    BY ToSetIs, LenProperties DEF TypeOK
  <2>1. \A c \in Client : ~Ahead(c, c)
    BY DEF Line
  <2>2. ASSUME NEW i \in 1 .. Len(queue), NEW j \in 1 .. Len(queue), queue[i] = queue[j], i < j
        PROVE  FALSE
    <3>1. Before(queue, queue[i], queue[i])
      BY <2>2 DEF Before
    <3>2. queue[i] \in Client
      BY <2>0, ElementOfSeq
    <3> QED
      BY <2>1, <3>1, <3>2 DEF Ahead
  <2>3. \A i, j \in 1 .. Len(queue) : queue[i] = queue[j] => i = j
    BY <2>0, <2>2
  <2>4. ToSet(queue) \cap ToSet(backlog) = {}
    BY <2>0, <2>1 DEF Ahead
  <2>5. current # None => current \notin ToSet(queue) \cup ToSet(backlog)
    BY <2>1 DEF Ahead, TypeOK
  <2>6. Waiting \cap Served = {}
    BY DEF Line
  <2> QED
    BY <2>3, <2>4, <2>5, <2>6 DEF InOnePlace, Waiting, Apart
<1> QED
  BY <1>1, LineKept, PTL
-----------------------------------------------------------------------------
(* The end of the descriptors *)

\* As many sessions as the process has descriptors have ended as they should.
Spent == Cardinality(finished \ freed) = MaxFds

\* Nothing is left that a client can get.
Shut == /\ open = finished \ freed /\ Cardinality(open) = MaxFds
        /\ current = None /\ queue = <<>> /\ running \subseteq freed

\* The sessions that have ended keep their descriptors.
LEMMA KeptByEnded ==
    ASSUME TypeOK, DescriptorsKept
    PROVE  /\ finished \ freed \subseteq open /\ IsFiniteSet(open)
           /\ Cardinality(finished \ freed) \in Nat /\ Cardinality(open) \in Nat
           /\ Cardinality(finished \ freed) <= MaxFds
           /\ Cardinality(finished \ freed) = MaxFds => open = finished \ freed
<1>1. IsFiniteSet(open)
  BY FS_Subset, AcceptorAssumption DEF TypeOK, AcceptorAssumption
<1>2. finished \ freed \subseteq open
  BY DEF DescriptorsKept
<1>3. /\ IsFiniteSet(finished \ freed)
      /\ Cardinality(finished \ freed) <= Cardinality(open)
      /\ Cardinality(finished \ freed) = Cardinality(open) => finished \ freed = open
  BY <1>1, <1>2, FS_Subset
<1>4. Cardinality(finished \ freed) \in Nat /\ Cardinality(open) \in Nat
  BY <1>1, <1>3, FS_CardinalityType
<1>5. Cardinality(open) <= MaxFds /\ MaxFds \in Nat
  BY AcceptorAssumption DEF DescriptorsKept, AcceptorAssumption
<1> QED
  BY <1>1, <1>2, <1>3, <1>4, <1>5

\* The server can end no more sessions in its life than it has descriptors,
\* save those whose handle a failure freed: handler() frees none.
THEOREM SessionsAreRationed == Spec => [](Cardinality(finished \ freed) <= MaxFds)
<1>1. TypeOK /\ DescriptorsKept => Cardinality(finished \ freed) <= MaxFds
  BY KeptByEnded
<1> QED
  BY <1>1, Typing, DescriptorsNeverGivenBack, PTL

LEMMA SpentIsShut == TypeOK /\ Line /\ Apart /\ DescriptorsKept /\ Spent => Shut
<1> SUFFICES ASSUME TypeOK, Line, Apart, DescriptorsKept, Spent PROVE Shut
  OBVIOUS
<1>1. open = finished \ freed /\ Cardinality(open) = MaxFds
  BY KeptByEnded DEF Spent
<1>2. ({current} \ {None}) \cup ToSet(queue) \cup (running \ freed) \subseteq finished
  BY <1>1 DEF DescriptorsKept
<1>3. Waiting \cap finished = {}
  BY DEF Line, Served
<1>4. current = None /\ ToSet(queue) = {} /\ running \subseteq freed
  BY <1>2, <1>3 DEF Waiting, Apart
<1>5. queue = <<>>
  BY <1>4, TailBefore DEF TypeOK
<1> QED
  BY <1>1, <1>4, <1>5 DEF Shut

LEMMA SpentNext == TypeOK /\ Apart /\ Spent /\ Shut /\ [Next]_vars => Spent' /\ Served' = Served
<1> SUFFICES ASSUME TypeOK, Apart, Spent, Shut, [Next]_vars PROVE Spent' /\ Served' = Served
  OBVIOUS
<1>1. CASE Start \/ Enqueue \/ HandshakeFails \/ Accept
  BY <1>1, AcceptorAssumption
     DEF Start, Pool!Start, Enqueue, HandshakeFails, Accept, Shut, AcceptorAssumption
<1>2. CASE AcceptWithoutHandle \/ UNCHANGED vars \/ \E c \in Client : ClientStep(c)
  <2>1. UNCHANGED <<running, finished, freed>>
    BY <1>2 DEF AcceptWithoutHandle, ClientStep, Connect, Greet, Exit, GiveUp, vars, pool
  <2> QED
    BY <2>1 DEF Spent, Served
<1>3. ASSUME NEW c \in Client, HandlerStep(c) PROVE Spent' /\ Served' = Served
  <2>1. c \in running /\ c \in freed
    BY <1>3 DEF HandlerStep, HandlerEnds, ListFails, HandlerThrows, Pool!Finish, Shut
  <2>2. running' \cup finished' = running \cup finished /\ freed' = freed
        /\ finished' = finished \cup {c}
    BY <1>3, <2>1 DEF HandlerStep, HandlerEnds, ListFails, HandlerThrows, Pool!Finish
  <2>3. finished' \ freed' = finished \ freed
    BY <2>1, <2>2
  <2> QED
    BY <2>2, <2>3 DEF Spent, Served
<1> QED
  BY <1>1, <1>2, <1>3 DEF Next, MainStep

\* Once that many have ended, the server serves nobody any more: the thread of
\* main finds no descriptor for the next connection, the pool has nothing to
\* do, and no step of anyone changes that.
THEOREM ShutForEver == Spec => [](Spent => []Shut)
<1>1. Spec => [](TypeOK /\ Line /\ Apart /\ DescriptorsKept)
  BY LineKept, DescriptorsNeverGivenBack, PTL
<1>2. TypeOK /\ Line /\ Apart /\ DescriptorsKept /\ Spent => Shut
  BY SpentIsShut
<1>3. TypeOK /\ Apart /\ Spent /\ Shut /\ [Next]_vars => Spent'
  BY SpentNext
<1> QED
  BY <1>1, <1>2, <1>3, PTL DEF Spec

\* ... and whoever has no thread by then never gets one.
THEOREM NobodyServedAfter == Spec => [][Spent => Served' = Served]_vars
<1>1. Spec => [](TypeOK /\ Line /\ Apart /\ DescriptorsKept)
  BY LineKept, DescriptorsNeverGivenBack, PTL
<1>2. TypeOK /\ Line /\ Apart /\ DescriptorsKept /\ [Next]_vars
      => [Spent => Served' = Served]_vars
  BY SpentIsShut, SpentNext
<1> QED
  BY <1>1, <1>2, PTL DEF Spec
=============================================================================
