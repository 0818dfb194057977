-------------------------- MODULE ConnectionProofs --------------------------
(***************************************************************************)
(* Proofs about Connection for streams of every length and every number of *)
(* commands after a slip.                                                  *)
(***************************************************************************)
EXTENDS Connection, SequenceTheorems, TLAPS

LEMMA ToSetIs ==
    ASSUME NEW S, NEW s \in Seq(S)
    PROVE  ToSet(s) = {s[i] : i \in 1 .. Len(s)} /\ DOMAIN s = 1 .. Len(s)
<1>1. DOMAIN s = 1 .. Len(s)
  BY LenProperties
<1> QED
  BY <1>1 DEF ToSet

\* What is sent comes after what is under way.
LEMMA Sent ==
    ASSUME NEW S, NEW s \in Seq(S), NEW t \in Seq(S)
    PROVE  s \o t \in Seq(S) /\ ToSet(s \o t) = ToSet(s) \cup ToSet(t)
<1>0. Len(s) \in Nat /\ Len(t) \in Nat
  BY LenProperties
<1>1. /\ s \o t \in Seq(S) /\ Len(s \o t) = Len(s) + Len(t)
      /\ \A i \in 1 .. Len(s) + Len(t) : (s \o t)[i] = IF i <= Len(s) THEN s[i] ELSE t[i - Len(s)]
  BY ConcatProperties
<1> DEFINE u == s \o t
<1>2. /\ ToSet(s) = {s[i] : i \in 1 .. Len(s)} /\ ToSet(t) = {t[i] : i \in 1 .. Len(t)}
      /\ ToSet(u) = {u[i] : i \in 1 .. Len(u)}
  BY <1>1, ToSetIs
<1>3. /\ Len(u) = Len(s) + Len(t)
      /\ \A i \in 1 .. Len(s) + Len(t) : u[i] = IF i <= Len(s) THEN s[i] ELSE t[i - Len(s)]
  BY <1>1
<1> HIDE DEF u
<1>4. \A i \in 1 .. Len(s) : i \in 1 .. Len(u) /\ u[i] = s[i]
  BY <1>0, <1>3
<1>5. ASSUME NEW i \in 1 .. Len(t)
      PROVE  Len(s) + i \in 1 .. Len(u) /\ u[Len(s) + i] = t[i]
  <2>1. /\ Len(s) + i \in 1 .. Len(s) + Len(t)
        /\ ~(Len(s) + i <= Len(s)) /\ Len(s) + i - Len(s) = i
    BY <1>0
  <2> QED
    BY <1>3, <2>1
<1>6. \A i \in 1 .. Len(u) : i \in 1 .. Len(s) \/ (i - Len(s) \in 1 .. Len(t) /\ u[i] = t[i - Len(s)])
  BY <1>0, <1>3
<1>7. ToSet(u) = ToSet(s) \cup ToSet(t)
  BY <1>2, <1>4, <1>5, <1>6
<1> QED
  BY <1>1, <1>7 DEF u

LEMMA Tails ==
    ASSUME NEW S, NEW s \in Seq(S), s # <<>>
    PROVE  Head(s) \in S /\ Tail(s) \in Seq(S) /\ ToSet(Tail(s)) \subseteq ToSet(s)
<1>1. /\ Head(s) \in S /\ Tail(s) \in Seq(S) /\ Len(Tail(s)) = Len(s) - 1
      /\ \A i \in 1 .. Len(s) - 1 : Tail(s)[i] = s[i + 1]
  BY HeadTailProperties, ElementOfSeq
<1>2. Len(s) \in Nat
  BY LenProperties
<1>3. /\ ToSet(s) = {s[i] : i \in 1 .. Len(s)}
      /\ ToSet(Tail(s)) = {Tail(s)[i] : i \in 1 .. Len(Tail(s))}
  BY <1>1, ToSetIs
<1>4. \A i \in 1 .. Len(Tail(s)) : i + 1 \in 1 .. Len(s) /\ Tail(s)[i] = s[i + 1]
  BY <1>1, <1>2
<1> QED
  BY <1>1, <1>3, <1>4

LEMMA First ==
    ASSUME NEW S, NEW s \in Seq(S), s # <<>>
    PROVE  Head(s) \in ToSet(s)
<1>1. Head(s) = s[1] /\ Len(s) \in Nat /\ Len(s) # 0
  BY HeadTailProperties, LenProperties, EmptySeq
<1>2. ToSet(s) = {s[i] : i \in 1 .. Len(s)}
  BY ToSetIs
<1> QED
  BY <1>1, <1>2

\* A read takes the first record, or leaves the rest of it.
LEMMA Taken ==
    ASSUME NEW S, NEW s \in Seq(S), s # <<>>, "rest" \in S,
           NEW t, t \in MayCut(s) \/ t \in Cut(s) \/ t = Tail(s)
    PROVE  t \in Seq(S) /\ ToSet(t) \subseteq ToSet(s) \cup {"rest"}
<1>1. Tail(s) \in Seq(S) /\ ToSet(Tail(s)) \subseteq ToSet(s)
  BY Tails
<1>2. <<"rest">> \in Seq(S) /\ ToSet(<<"rest">>) = {"rest"}
  BY DEF ToSet
<1>3. /\ <<"rest">> \o Tail(s) \in Seq(S)
      /\ ToSet(<<"rest">> \o Tail(s)) = {"rest"} \cup ToSet(Tail(s))
  <2> DEFINE r == <<"rest">>
             u == Tail(s)
  <2>1. r \in Seq(S) /\ u \in Seq(S) /\ ToSet(r) = {"rest"}
    BY <1>1, <1>2
  <2> HIDE DEF r, u
  <2>2. r \o u \in Seq(S) /\ ToSet(r \o u) = {"rest"} \cup ToSet(u)
    BY <2>1, Sent
  <2> QED
    BY <2>2 DEF r, u
<1>4. t = Tail(s) \/ t = <<"rest">> \o Tail(s)
  BY DEF MayCut, Cut
<1> QED
  BY <1>1, <1>3, <1>4
-----------------------------------------------------------------------------
(* Types *)

\* The outcome of a login is only awaited in a command on files.
OnFiles == cpc = "status" => cop \in FileCommands

LEMMA TypeInit == Init => TypeOK /\ OnFiles
<1> SUFFICES ASSUME Init PROVE TypeOK /\ OnFiles
  OBVIOUS
<1>1. <<>> \in Seq(ClientTexts) /\ <<>> \in Seq(ServerTexts)
  BY EmptySeq
<1>2. after \in 0 .. MaxAfter
  BY ConnectionAssumption DEF Init, ConnectionAssumption
<1>3. toServer \in Seq(ClientTexts) /\ toClient \in Seq(ServerTexts)
  BY <1>1 DEF Init
<1> QED
  BY <1>2, <1>3 DEF Init, TypeOK, OnFiles, AtMenu, AtRead

\* What only one that is logged in sends, or is read in a command on files.
Private(stream) == ToSet(stream) \cap (OwnReplies \cup {"LOGIN_SUCCESS"}) # {}

InFiles == cpc \in {"listing", "uploadAck", "size", "data", "result"}
Serving == spc \in {"lock", "metadata", "content", "marker", "filename", "ack", "request"}

\* What a step of the client does to the streams: it leaves a rest of what is the
\* user's own, or in an upload.
LEMMA ClientStreams ==
    ASSUME TypeOK, OnFiles, UserStep \/ ClientStep \/ ClientReadFails
    PROVE  /\ toServer' \in Seq(ClientTexts)
           /\ toClient' \in Seq(ServerTexts)
           /\ Private(toClient') => Private(toClient) \/ InFiles
<1> USE DEF ClientTexts, ServerTexts, Commands, FileCommands
<1>0. toServer \in Seq(ClientTexts) /\ toClient \in Seq(ServerTexts)
  BY DEF TypeOK
<1>1. ASSUME NEW texts \in Seq(ClientTexts), ClientSends(texts)
      PROVE  toServer' \in Seq(ClientTexts)
  BY <1>0, <1>1, Sent DEF ClientSends
<1>a. toClient # <<>> => Head(toClient) \in ToSet(toClient)
  BY <1>0, First
<1>b. ASSUME toClient # <<>>,
             \/ toClient' = Tail(toClient)
             \/ /\ toClient' \in MayCut(toClient) \/ toClient' \in Cut(toClient)
                /\ Head(toClient) \in OwnReplies \/ InFiles
      PROVE  toClient' \in Seq(ServerTexts) /\ (Private(toClient') => Private(toClient) \/ InFiles)
  <2>1. /\ toClient' \in Seq(ServerTexts)
        /\ ToSet(toClient') \subseteq ToSet(toClient) \cup {"rest"}
    BY <1>0, <1>b, Taken
  <2>2. CASE toClient' = Tail(toClient)
    <3>1. ToSet(toClient') \subseteq ToSet(toClient)
      BY <1>0, <1>b, <2>2, Tails
    <3> QED
      BY <2>1, <3>1 DEF Private
  <2>3. CASE Head(toClient) \in OwnReplies
    BY <1>a, <1>b, <2>1, <2>3 DEF Private
  <2> QED
    BY <1>b, <2>1, <2>2, <2>3
<1>2. ASSUME NEW t, ClientReads(t) \/ (ClientReadsTwo(t) /\ InFiles)
      PROVE  toClient' \in Seq(ServerTexts) /\ (Private(toClient') => Private(toClient) \/ InFiles)
  <2>1. /\ toClient # <<>>
        /\ \/ toClient' = Tail(toClient)
           \/ /\ toClient' \in MayCut(toClient) \/ toClient' \in Cut(toClient)
              /\ Head(toClient) \in OwnReplies \/ InFiles
    BY <1>2 DEF ClientReads, ClientReadsTwo
  <2> QED
    BY <1>b, <2>1
<1>3. <<>> \in Seq(ClientTexts)
  BY EmptySeq
<1>4. ASSUME NEW o, NEW texts \in Seq(ClientTexts), NEW place, Choose(o, texts, place)
      PROVE  toServer' \in Seq(ClientTexts) /\ toClient' = toClient
  BY <1>1, <1>4 DEF Choose
<1>5. CASE Register \/ Login
  <2>1. /\ <<"register", "name", "password">> \in Seq(ClientTexts)
        /\ <<"login", "name", "password">> \in Seq(ClientTexts)
    OBVIOUS
  <2> QED
    BY <1>0, <1>4, <1>5, <2>1 DEF Register, Login
<1>6. CASE FileCommand
  <2>1. PICK o \in FileCommands : Choose(o, <<o>>, "status")
    BY <1>6 DEF FileCommand
  <2>2. <<o>> \in Seq(ClientTexts)
    OBVIOUS
  <2> QED
    BY <1>0, <1>4, <2>1, <2>2
<1>7. CASE RefuseRegistration \/ MissingFile
  <2>1. <<"register">> \in Seq(ClientTexts) /\ <<"error">> \in Seq(ClientTexts)
    OBVIOUS
  <2> QED
    BY <1>0, <1>1, <1>7, <2>1 DEF RefuseRegistration, MissingFile
<1>8. CASE Exit \/ ClientReadFails
  BY <1>0, <1>8 DEF Exit, ClientReadFails, streams
<1>9. CASE LastReply
  BY <1>0, <1>2, <1>9 DEF LastReply
<1>10. CASE CheckLoggedIn
  <2>1. PICK t \in ServerTexts :
          /\ ClientReads(t)
          /\ \/ toServer' = toServer
             \/ ClientSends(<<"metadata">>) \/ ClientSends(<<"badMetadata">>)
             \/ ClientSends(<<"file">>) \/ ClientSends(<<"names">>)
    BY <1>10 DEF CheckLoggedIn, GoOn, OnFiles
  <2>2. /\ <<"metadata">> \in Seq(ClientTexts) /\ <<"badMetadata">> \in Seq(ClientTexts)
        /\ <<"file">> \in Seq(ClientTexts) /\ <<"names">> \in Seq(ClientTexts)
    OBVIOUS
  <2> QED
    BY <1>0, <1>1, <1>2, <2>1, <2>2
<1>11. CASE ReadListing
  <2>1. /\ toServer' = toServer /\ toClient # <<>> /\ InFiles
        /\ toClient' \in MayCut(toClient) \/ toClient' = Tail(toClient)
    BY <1>11 DEF ReadListing, InFiles
  <2> QED
    BY <1>0, <1>b, <2>1
<1>12. CASE UploadAck
  <2>1. PICK t \in ServerTexts :
          /\ ClientReadsTwo(t) /\ InFiles
          /\ \/ toServer' = toServer
             \/ ClientSends(<<"content", "UPLOAD_COMPLETE">>) \/ ClientSends(<<"part">>)
    BY <1>12 DEF UploadAck, InFiles
  <2>2. <<"content", "UPLOAD_COMPLETE">> \in Seq(ClientTexts) /\ <<"part">> \in Seq(ClientTexts)
    OBVIOUS
  <2> QED
    BY <1>0, <1>1, <1>2, <2>1, <2>2
<1>13. CASE ReadSize
  <2>1. PICK t \in ServerTexts :
          ClientReads(t) /\ (toServer' = toServer \/ ClientSends(<<"OK">>))
    BY <1>13 DEF ReadSize
  <2>2. <<"OK">> \in Seq(ClientTexts)
    OBVIOUS
  <2> QED
    BY <1>0, <1>1, <1>2, <2>1, <2>2
<1>14. CASE ReadData
  <2>1. /\ toServer' = toServer /\ toClient # <<>> /\ InFiles
        /\ toClient' \in MayCut(toClient) \/ toClient' = Tail(toClient)
    BY <1>14 DEF ReadData, InFiles
  <2> QED
    BY <1>0, <1>b, <2>1
<1> QED
  BY <1>5, <1>6, <1>7, <1>8, <1>9, <1>10, <1>11, <1>12, <1>13, <1>14 DEF UserStep, ClientStep

\* What it does to the rest.
LEMMA ClientControl ==
    ASSUME TypeOK, OnFiles, UserStep \/ ClientStep \/ ClientReadFails
    PROVE  /\ cpc' \in AtMenu \cup AtReply /\ cop' \in Commands \cup {None} /\ OnFiles'
           /\ slip' \in {"none", "slipped"}
           /\ InFiles' => InFiles \/ Private(toClient)
           /\ UNCHANGED <<server, up>>
<1> USE DEF AtMenu, AtReply
<1>1. /\ cpc \in AtMenu \cup AtReply /\ cop \in Commands \cup {None}
      /\ slip \in {"none", "slipped"}
  BY DEF TypeOK
<1>2. ASSUME NEW k, Slip(k) PROVE slip' \in {"none", "slipped"}
  BY <1>1, <1>2 DEF Slip
<1>3. ASSUME NEW o \in Commands, NEW texts, NEW place, Choose(o, texts, place)
      PROVE  cpc' = place /\ cop' = o /\ UNCHANGED <<server, up, slip>>
  BY <1>3 DEF Choose
<1>4. CASE Register \/ Login \/ FileCommand
  BY <1>1, <1>3, <1>4 DEF Register, Login, FileCommand, OnFiles, InFiles, Commands, FileCommands
<1>5. CASE RefuseRegistration \/ MissingFile \/ Exit
  BY <1>1, <1>2, <1>5 DEF RefuseRegistration, MissingFile, Exit, OnFiles, InFiles, client
<1>6. CASE LastReply \/ ReadListing \/ UploadAck \/ ReadData \/ ClientReadFails
  BY <1>1, <1>2, <1>6 DEF LastReply, ReadListing, UploadAck, ReadData, ClientReadFails,
                          BackToMenu, OnFiles, InFiles, client
<1>7. CASE CheckLoggedIn
  <2>1. \/ BackToMenu /\ (slip' = slip \/ Slip("aborted"))
        \/ /\ \E place \in {"listing", "uploadAck", "size", "result"} : Wait(place)
           /\ toClient # <<>> /\ Head(toClient) \in SaysLoggedIn
    BY <1>7 DEF CheckLoggedIn, GoOn, ClientReads, OnFiles, FileCommands
  <2>2. UNCHANGED <<server, up>>
    BY <1>7 DEF CheckLoggedIn
  <2>3. toClient # <<>> /\ Head(toClient) \in SaysLoggedIn => Private(toClient)
    BY First DEF TypeOK, Private, SaysLoggedIn, OwnReplies
  <2> QED
    BY <1>1, <1>2, <2>1, <2>2, <2>3 DEF BackToMenu, Wait, OnFiles, InFiles
<1>8. CASE ReadSize
  <2>1. \/ BackToMenu /\ (slip' = slip \/ Slip("aborted"))
        \/ Wait("data")
        \/ cpc' = "aborted" /\ cop' = None /\ slip' = slip
    BY <1>8 DEF ReadSize
  <2>2. UNCHANGED <<server, up>> /\ cpc = "size"
    BY <1>8 DEF ReadSize
  <2> QED
    BY <1>1, <1>2, <2>1, <2>2 DEF BackToMenu, Wait, OnFiles, InFiles
<1> QED
  BY <1>4, <1>5, <1>6, <1>7, <1>8 DEF UserStep, ClientStep

\* What a step of the server does to the streams: only one that is logged in says so.
LEMMA ServerStreams ==
    ASSUME TypeOK, ServerStep \/ ObeyOwnText \/ TakeLock \/ ServerEnds
    PROVE  /\ toServer' \in Seq(ClientTexts)
           /\ toClient' \in Seq(ServerTexts)
           /\ Private(toClient') => Private(toClient) \/ Serving \/ isLoggedin'
<1> USE DEF ClientTexts, ServerTexts, Private, OwnReplies
<1>0. toServer \in Seq(ClientTexts) /\ toClient \in Seq(ServerTexts)
  BY DEF TypeOK
<1>1. ASSUME NEW texts \in Seq(ServerTexts), ServerSends(texts)
      PROVE  /\ toClient' \in Seq(ServerTexts)
             /\ ToSet(toClient') = ToSet(toClient) \cup ToSet(texts)
  BY <1>0, <1>1, Sent DEF ServerSends
<1>2. ASSUME NEW t, ServerReads(t) \/ ServerReadsTwo(t)
      PROVE  toServer' \in Seq(ClientTexts)
  <2>1. /\ toServer # <<>>
        /\ toServer' \in MayCut(toServer) \/ toServer' \in Cut(toServer) \/ toServer' = Tail(toServer)
    BY <1>2 DEF ServerReads, ServerReadsTwo
  <2> QED
    BY <1>0, <2>1, Taken
<1>3. ASSUME NEW a \in ServerTexts, ServerSends(<<a>>)
      PROVE  /\ toClient' \in Seq(ServerTexts)
             /\ ToSet(toClient') = ToSet(toClient) \cup {a}
  <2>1. <<a>> \in Seq(ServerTexts) /\ ToSet(<<a>>) = {a}
    BY DEF ToSet
  <2> QED
    BY <1>1, <1>3, <2>1
<1>4. CASE ReadOption \/ ObeyOwnText
  <2>1. /\ toServer' \in Seq(ClientTexts)
        /\ \/ toClient' = toClient
           \/ \E o : isLoggedin /\ LoggedInCommand(o)
           \/ ServerSends(<<"LOGIN_FAIL">>)
           \/ ServerSends(<<"ERROR">>)
    <3>1. CASE ReadOption
      BY <1>2, <3>1 DEF ReadOption, Obey
    <3>2. CASE ObeyOwnText
      BY <1>0, <3>2, Tails DEF ObeyOwnText, Obey
    <3> QED
      BY <1>4, <3>1, <3>2
  <2>2. CASE toClient' = toClient \/ ServerSends(<<"LOGIN_FAIL">>) \/ ServerSends(<<"ERROR">>)
    BY <1>0, <1>3, <2>1, <2>2
  <2>3. ASSUME NEW o, isLoggedin, LoggedInCommand(o)
        PROVE  toClient' \in Seq(ServerTexts) /\ isLoggedin'
    <3>1. /\ isLoggedin' = isLoggedin
          /\ \/ ServerSends(<<"LOGIN_SUCCESS", "listing">>)
             \/ ServerSends(<<"LOGIN_SUCCESS", "listing", "rest">>)
             \/ ServerSends(<<"LOGIN_SUCCESS">>)
      BY <2>3 DEF LoggedInCommand, Return
    <3>2. /\ <<"LOGIN_SUCCESS", "listing">> \in Seq(ServerTexts)
          /\ <<"LOGIN_SUCCESS", "listing", "rest">> \in Seq(ServerTexts)
      OBVIOUS
    <3>3. toClient' \in Seq(ServerTexts)
      BY <1>1, <1>3, <3>1, <3>2
    <3>4. isLoggedin'
      BY <2>3, <3>1, Zenon
    <3> QED
      BY <3>3, <3>4
  <2> QED
    BY <2>1, <2>2, <2>3
<1>5. CASE ReadPassword
  <2>1. PICK t \in ClientTexts :
          /\ ServerReads(t)
          /\ \/ \E a \in AccountAnswers(arg, t) :
                  ServerSends(<<a>>) /\ isLoggedin' = (isLoggedin \/ a = "LOGIN_SUCCESS")
             \/ toClient' = toClient
    BY <1>5 DEF ReadPassword
  <2>2. CASE toClient' = toClient
    BY <1>0, <1>2, <2>1, <2>2
  <2>3. CASE toClient' # toClient
    <3>1. PICK a \in AccountAnswers(arg, t) :
            ServerSends(<<a>>) /\ isLoggedin' = (isLoggedin \/ a = "LOGIN_SUCCESS")
      BY <2>1, <2>3
    <3>2. a \in ServerTexts /\ a \notin OwnReplies
      BY DEF AccountAnswers
    <3>3. a = "LOGIN_SUCCESS" => isLoggedin'
      BY <3>1, Zenon
    <3> QED
      BY <1>2, <1>3, <2>1, <3>1, <3>2, <3>3
  <2> QED
    BY <2>2, <2>3
<1>6. CASE ReadMetadata \/ ReadFilename \/ ReadAck \/ ReadRequest
  <2>1. PICK t : ServerReads(t) \/ ServerReadsTwo(t)
    BY <1>6 DEF ReadMetadata, ReadFilename, ReadAck, ReadRequest
  <2>2. \/ toClient' = toClient
        \/ \E a \in ServerTexts : ServerSends(<<a>>)
    BY <1>6 DEF ReadMetadata, ReadFilename, ReadAck, ReadRequest
  <2>3. Serving
    BY <1>6 DEF ReadMetadata, ReadFilename, ReadAck, ReadRequest, Serving
  <2> QED
    BY <1>0, <1>2, <1>3, <2>1, <2>2, <2>3
<1>7. CASE ReadName \/ ReadMarker
  BY <1>0, <1>2, <1>7 DEF ReadName, ReadMarker
<1>8. CASE ReadContent
  <2>1. /\ toClient' = toClient /\ toServer # <<>>
        /\ toServer' \in MayCut(toServer) \/ toServer' = Tail(toServer)
    BY <1>8 DEF ReadContent
  <2> QED
    BY <1>0, <2>1, Taken
<1>9. CASE TakeLock \/ ServerEnds
  BY <1>0, <1>9 DEF TakeLock, ServerEnds, streams
<1> QED
  BY <1>4, <1>5, <1>6, <1>7, <1>8, <1>9 DEF ServerStep

\* What it does to the rest.
LEMMA ServerControl ==
    ASSUME TypeOK, ServerStep \/ ObeyOwnText \/ TakeLock \/ ServerEnds
    PROVE  /\ spc' \in AtRead \cup {"lock", "ended"} /\ sop' \in Commands \cup {None}
           /\ arg' \in ClientTexts \cup {"size", "0", None}
           /\ isLoggedin' \in BOOLEAN /\ (isLoggedin => isLoggedin' \/ spc' = "ended")
           /\ slip' \in {"none", "slipped"}
           /\ (spc = "ended" => spc' = "ended")
           /\ (Serving' => Serving \/ isLoggedin')
           /\ UNCHANGED <<client, up>>
<1> USE DEF AtRead, Serving
<1>1. /\ spc \in AtRead \cup {"lock", "ended"} /\ sop \in Commands \cup {None}
      /\ arg \in ClientTexts \cup {"size", "0", None} /\ isLoggedin \in BOOLEAN
      /\ slip \in {"none", "slipped"}
  BY DEF TypeOK
<1>2. ASSUME NEW k, Slip(k) PROVE slip' \in {"none", "slipped"}
  BY <1>1, <1>2 DEF Slip
<1>3. CASE ReadOption \/ ObeyOwnText
  <2>1. PICK o :
          \/ o \in {"register", "login"} /\ spc' = "name" /\ sop' = o
               /\ UNCHANGED <<arg, isLoggedin, slip>>
          \/ o \in FileCommands /\ isLoggedin /\ LoggedInCommand(o)
          \/ UNCHANGED <<server, slip>>
    BY <1>3 DEF ReadOption, ObeyOwnText, Obey
  <2>2. UNCHANGED <<client, up>> /\ spc = "option"
    BY <1>3 DEF ReadOption, ObeyOwnText, Obey
  <2>3. CASE o \in FileCommands /\ isLoggedin /\ LoggedInCommand(o)
    <3>1. slip' = slip \/ Slip("longList")
      BY <2>3 DEF LoggedInCommand
    <3>2. \/ Return
          \/ spc' \in {"lock", "filename"} /\ sop' = o /\ UNCHANGED <<arg, isLoggedin>>
      BY <2>3 DEF LoggedInCommand
    <3>3. slip' \in {"none", "slipped"}
      BY <1>1, <1>2, <3>1
    <3> QED
      BY <1>1, <2>2, <2>3, <3>2, <3>3 DEF Return, Commands
  <2>4. CASE ~(o \in FileCommands /\ isLoggedin /\ LoggedInCommand(o))
    BY <1>1, <2>1, <2>2, <2>4 DEF Commands, server
  <2> QED
    BY <2>3, <2>4
<1>4. CASE ReadPassword
  <2>1. /\ spc = "password" /\ spc' = "option" /\ sop' = None /\ arg' = None
        /\ UNCHANGED <<client, up>>
        /\ slip' = slip \/ Slip("silent")
    BY <1>4 DEF ReadPassword
  <2>2. \/ isLoggedin' = isLoggedin
        \/ \E a : isLoggedin' = (isLoggedin \/ a = "LOGIN_SUCCESS")
    BY <1>4 DEF ReadPassword
  <2>3. isLoggedin' \in BOOLEAN /\ (isLoggedin => isLoggedin')
    BY <1>1, <2>2
  <2> QED
    BY <1>1, <1>2, <2>1, <2>3
<1>5. CASE ReadName \/ ReadMarker \/ ReadRequest
  BY <1>1, <1>5 DEF ReadName, ReadMarker, ReadRequest, Return, client
<1>6. CASE ReadMetadata \/ ReadContent \/ ReadFilename \/ ReadAck
  <2>1. /\ UNCHANGED <<client, up>> /\ spc # "ended" /\ Serving
        /\ slip' = slip \/ \E k : Slip(k)
        /\ \/ Return \/ ReadNext("content") \/ ReadNext("marker")
           \/ spc' = "ack" /\ arg' \in {"size", "0"} /\ UNCHANGED <<sop, isLoggedin>>
    BY <1>6 DEF ReadMetadata, ReadContent, ReadFilename, ReadAck
  <2>2. slip' \in {"none", "slipped"}
    BY <1>1, <1>2, <2>1
  <2> QED
    BY <1>1, <2>1, <2>2 DEF Return, ReadNext
<1>7. CASE TakeLock \/ ServerEnds
  BY <1>1, <1>7 DEF TakeLock, ReadNext, ServerEnds, client
<1> QED
  BY <1>3, <1>4, <1>5, <1>6, <1>7 DEF ServerStep

LEMMA TypeNext == TypeOK /\ OnFiles /\ [Next]_vars => TypeOK' /\ OnFiles'
<1> SUFFICES ASSUME TypeOK, OnFiles, [Next]_vars PROVE TypeOK' /\ OnFiles'
  OBVIOUS
<1>1. after' \in 0 .. MaxAfter
  <2>1. after' = after \/ (after < MaxAfter /\ after' = after + 1)
    BY DEF Next, ClientGoesOn, ServerGoesOn, Others, CountAfter, vars
  <2> QED
    BY <2>1, ConnectionAssumption DEF TypeOK, ConnectionAssumption
<1>a. held' \in BOOLEAN
  <2>1. held' = held \/ held' = ~held
    BY DEF Next, ClientGoesOn, ServerGoesOn, Others, vars
  <2> QED
    BY <2>1 DEF TypeOK
<1>2. CASE UserStep \/ ClientStep \/ ClientReadFails
  BY <1>1, <1>2, <1>a, ClientStreams, ClientControl DEF TypeOK, server
<1>3. CASE ServerStep \/ ObeyOwnText \/ TakeLock \/ ServerEnds
  BY <1>1, <1>3, <1>a, ServerStreams, ServerControl DEF TypeOK, OnFiles, client
<1>4. CASE Break
  <2>1. <<>> \in Seq(ClientTexts) /\ <<>> \in Seq(ServerTexts)
    BY EmptySeq
  <2> QED
    BY <1>1, <1>4, <1>a, <2>1 DEF Break, TypeOK, OnFiles, client, server
<1>5. CASE ClientKilled
  BY <1>1, <1>5, <1>a DEF ClientKilled, TypeOK, OnFiles, server, streams, AtMenu
<1>6. CASE Others \/ UNCHANGED vars
  BY <1>6, <1>a DEF Others, vars, client, server, streams, TypeOK, OnFiles
<1> QED
  BY <1>2, <1>3, <1>4, <1>5, <1>6 DEF Next, ClientGoesOn, ServerGoesOn

\* Every variable keeps its type; in particular nothing else is ever under way
\* than the texts of the protocol and the rests of them.
THEOREM Typing == Spec => []TypeOK
  BY TypeInit, TypeNext, PTL DEF Spec
-----------------------------------------------------------------------------
(* Nobody is told that he is logged in who is not *)

Said == Private(toClient) \/ InFiles \/ Serving => isLoggedin \/ spc = "ended"

LEMMA SaidNext == TypeOK /\ OnFiles /\ Said /\ [Next]_vars => Said'
<1> SUFFICES ASSUME TypeOK, OnFiles, Said, [Next]_vars PROVE Said'
  OBVIOUS
<1>1. CASE UserStep \/ ClientStep \/ ClientReadFails
  <2>1. Private(toClient') \/ InFiles' => Private(toClient) \/ InFiles
    BY <1>1, ClientStreams, ClientControl
  <2>2. UNCHANGED <<spc, isLoggedin>>
    BY <1>1, ClientControl DEF server
  <2> QED
    BY <2>1, <2>2 DEF Said, Serving
<1>2. CASE ServerStep \/ ObeyOwnText \/ TakeLock \/ ServerEnds
  <2>1. /\ Private(toClient') => Private(toClient) \/ Serving \/ isLoggedin'
        /\ Serving' => Serving \/ isLoggedin'
        /\ isLoggedin => isLoggedin' \/ spc' = "ended"
        /\ spc = "ended" => spc' = "ended"
    BY <1>2, ServerStreams, ServerControl, Zenon
  <2>2. InFiles' <=> InFiles
    BY <1>2, ServerControl DEF client, InFiles
  <2> QED
    BY <2>1, <2>2, Zenon DEF Said
<1>3. CASE Break
  BY <1>3 DEF Break, client, server, Said, Private, InFiles, Serving, ToSet
<1>4. CASE ClientKilled \/ Others \/ UNCHANGED vars
  BY <1>4 DEF ClientKilled, Others, vars, client, server, streams, Said, InFiles, Serving
<1> QED
  BY <1>1, <1>2, <1>3, <1>4 DEF Next, ClientGoesOn, ServerGoesOn

\* The client never reads that it is logged in on a connection that is not,
\* however often the two programs have lost each other: what may spell that answer
\* is only sent, or left behind by a read, in commands of one that is logged in.
THEOREM NobodyIsToldByMistake == Spec => []LoginIsReal
<1>1. Init => Said
  BY DEF Init, Said, Private, InFiles, Serving, ToSet
<1>2. TypeOK /\ Said => LoginIsReal
  <2> SUFFICES ASSUME TypeOK, Said, NEW i \in DOMAIN toClient, toClient[i] \in SaysLoggedIn
               PROVE  isLoggedin \/ spc = "ended"
    BY DEF LoginIsReal
  <2>1. toClient[i] \in ToSet(toClient)
    BY ToSetIs DEF TypeOK
  <2>2. Private(toClient)
    BY <2>1 DEF Private, OwnReplies, SaysLoggedIn
  <2> QED
    BY <2>2 DEF Said
<1> QED
  BY <1>1, <1>2, TypeInit, TypeNext, SaidNext, PTL DEF Spec
-----------------------------------------------------------------------------
(* In step *)

\* What the server has still to read of an earlier command ...
Behind(pre) ==
    \/ pre = <<>> /\ spc = "option" /\ sop = None
    \/ pre = <<"content", "UPLOAD_COMPLETE">> /\ spc = "content" /\ sop = "upload"
    \/ pre = <<"UPLOAD_COMPLETE">> /\ spc = "marker" /\ sop = "upload"
    \/ pre = <<"OK">> /\ spc = "ack" /\ sop = "download" /\ arg = "0"

\* ... and what the client has written of the next one.
Asks(cur) ==
    \/ cur = <<>> /\ cpc \in {"menu", "done"} /\ cop = None
    \/ cur = <<cop, "name", "password">> /\ cpc = "account" /\ cop \in {"register", "login"}
    \/ cur = <<cop>> /\ cpc = "status" /\ cop \in FileCommands

Asking ==
    /\ toClient = <<>>
    /\ \E pre, cur \in Seq(ClientTexts) :
         Behind(pre) /\ Asks(cur) /\ toServer = pre \o cur

\* The client waits and the server has something to read.
AtServer ==
    /\ toClient = <<>> /\ sop = cop
    /\ \/ /\ cpc = "account" /\ cop \in {"register", "login"}
          /\ \/ spc = "name" /\ toServer = <<"name", "password">>
             \/ spc = "password" /\ arg = "name" /\ toServer = <<"password">>
       \/ /\ cpc = "uploadAck" /\ cop = "upload" /\ spc \in {"lock", "metadata"}
          /\ toServer = <<"metadata">> \/ toServer = <<"badMetadata">>
       \/ cpc = "size" /\ cop = "download" /\ spc = "filename" /\ toServer = <<"file">>
       \/ cpc = "data" /\ cop = "download" /\ spc = "ack" /\ arg = "size" /\ toServer = <<"OK">>
       \/ cpc = "result" /\ cop = "rename" /\ spc \in {"lock", "request"}
             /\ toServer = <<"names">>
       \/ cpc = "result" /\ cop = "delete" /\ spc \in {"lock", "request"}
             /\ toServer = <<"file">>

\* The client has something to read, and the server is in the command or done with it.
AtClient ==
    /\ toServer = <<>> /\ sop = cop
    /\ \/ /\ cpc = "status" /\ toClient = <<"LOGIN_SUCCESS">>
          /\ \/ cop = "upload" /\ spc \in {"lock", "metadata"}
             \/ cop = "download" /\ spc = "filename"
             \/ cop \in {"rename", "delete"} /\ spc \in {"lock", "request"}
       \/ cpc = "uploadAck" /\ cop = "upload" /\ spc = "content" /\ toClient = <<"OK">>
       \/ /\ cpc = "size" /\ cop = "download" /\ spc = "ack"
          /\ arg \in {"size", "0"} /\ toClient = <<arg>>

Done ==
    /\ toServer = <<>> /\ spc = "option" /\ sop = None
    /\ \/ cpc = "status" /\ cop = "ls" /\ toClient = <<"LOGIN_SUCCESS", "listing">>
       \/ cpc = "status" /\ cop \in FileCommands /\ toClient = <<"LOGIN_FAIL">>
       \/ cpc = "listing" /\ cop = "ls" /\ toClient = <<"listing">>
       \/ cpc = "size" /\ cop = "download" /\ toClient = <<"ERROR">>
       \/ cpc = "data" /\ cop = "download" /\ toClient = <<"data">>
       \/ /\ cpc = "result" /\ cop \in {"rename", "delete"}
          /\ toClient = <<"SUCCESS">> \/ toClient = <<"ERROR">>
       \/ /\ cpc = "account" /\ cop = "register"
          /\ toClient = <<"OK">> \/ toClient = <<"USER_EXISTS">>
       \/ /\ cpc = "account" /\ cop = "login"
          /\ \/ toClient = <<"LOGIN_SUCCESS">> \/ toClient = <<"USER_NOT_FOUND">>
             \/ toClient = <<"WRONG_PASSWORD">>

Over ==
    /\ toServer = <<>> /\ toClient = <<>>
    /\ spc = "ended" /\ sop = None /\ cpc = "done" /\ cop = None

Together ==
    slip = "none" =>
        IF up THEN Asking \/ AtServer \/ AtClient \/ Done \/ Over
              ELSE toServer = <<>> /\ toClient = <<>>

\* The first record of a stream that begins with one.
LEMMA FirstRecord ==
    ASSUME NEW S, NEW x \in S, NEW s \in Seq(S)
    PROVE  /\ <<x>> \o s \in Seq(S) /\ <<x>> \o s # <<>>
           /\ Head(<<x>> \o s) = x /\ Tail(<<x>> \o s) = s
<1>0. Len(s) \in Nat /\ <<x>> \in Seq(S) /\ Len(<<x>>) = 1
  BY LenProperties
<1> DEFINE r == <<x>>
<1>1. r \in Seq(S) /\ Len(r) = 1 /\ r[1] = x
  BY <1>0
<1> HIDE DEF r
<1> DEFINE u == r \o s
<1>2. /\ u \in Seq(S) /\ Len(u) = Len(s) + 1
      /\ \A i \in 1 .. Len(s) + 1 : u[i] = IF i <= 1 THEN r[i] ELSE s[i - 1]
  <2>1. /\ u \in Seq(S) /\ Len(u) = Len(r) + Len(s)
        /\ \A i \in 1 .. Len(r) + Len(s) :
              u[i] = IF i <= Len(r) THEN r[i] ELSE s[i - Len(r)]
    BY <1>1, ConcatProperties
  <2> QED
    BY <1>0, <1>1, <2>1
<1> HIDE DEF u
<1>3. u # <<>>
  BY <1>0, <1>2, EmptySeq
<1>4. /\ Head(u) = u[1] /\ Tail(u) \in Seq(S) /\ Len(Tail(u)) = Len(u) - 1
      /\ \A i \in 1 .. Len(u) - 1 : Tail(u)[i] = u[i + 1]
  BY <1>2, <1>3, HeadTailProperties
<1>5. Head(u) = x
  BY <1>0, <1>1, <1>2, <1>4
<1>6. ASSUME NEW i \in 1 .. Len(s) PROVE Tail(u)[i] = s[i]
  <2>1. /\ i \in 1 .. Len(u) - 1 /\ i + 1 \in 1 .. Len(s) + 1 /\ ~(i + 1 <= 1)
        /\ (i + 1) - 1 = i
    BY <1>0, <1>2
  <2> QED
    BY <1>2, <1>4, <2>1
<1>7. Tail(u) = s
  <2> DEFINE t == Tail(u)
  <2>1. t \in Seq(S) /\ Len(t) = Len(s) /\ \A i \in 1 .. Len(s) : t[i] = s[i]
    BY <1>0, <1>2, <1>4, <1>6
  <2> HIDE DEF t
  <2>2. t = s
    BY <2>1, SeqEqual
  <2> QED
    BY <2>2 DEF t
<1>8. u = <<x>> \o s
  BY DEF u, r
<1> QED
  BY <1>2, <1>3, <1>5, <1>7, <1>8

LEMMA FirstOfTwo ==
    ASSUME NEW S, NEW x \in S, NEW y \in S, NEW s \in Seq(S)
    PROVE  /\ <<x, y>> \o s # <<>>
           /\ Head(<<x, y>> \o s) = x /\ Tail(<<x, y>> \o s) = <<y>> \o s
<1>1. <<x, y>> \o s = <<x>> \o (<<y>> \o s)
  <2> DEFINE a == <<x>>
             b == <<y>>
  <2>1. a \in Seq(S) /\ b \in Seq(S)
    OBVIOUS
  <2>2. a \o b = <<x, y>>
    <3>1. Append(a, y) = <<x, y>>
      <4> DEFINE t == Append(a, y)
                 u == <<x, y>>
      <4>1. t \in Seq(S) /\ Len(t) = 2 /\ t[1] = x /\ t[2] = y
        BY <2>1, AppendProperties
      <4>2. u \in Seq(S) /\ Len(u) = 2 /\ u[1] = x /\ u[2] = y
        OBVIOUS
      <4> HIDE DEF t, u
      <4>3. \A i \in 1 .. 2 : i = 1 \/ i = 2
        OBVIOUS
      <4>4. \A i \in 1 .. Len(t) : t[i] = u[i]
        BY <4>1, <4>2, <4>3
      <4>5. t = u
        BY <4>1, <4>2, <4>4, SeqEqual
      <4> QED
        BY <4>5 DEF t, u
    <3>2. Append(a, y) = a \o <<y>>
      BY <2>1, AppendIsConcat
    <3> QED
      BY <3>1, <3>2
  <2> HIDE DEF a, b
  <2>3. (a \o b) \o s = a \o (b \o s)
    BY <2>1, ConcatAssociative
  <2> QED
    BY <2>2, <2>3 DEF a, b
<1>2. <<y>> \o s \in Seq(S)
  BY FirstRecord
<1> QED
  BY <1>1, <1>2, FirstRecord

LEMMA TogetherInit == Init => Together
<1> SUFFICES ASSUME Init PROVE Asking
  BY DEF Init, Together
<1>1. <<>> \in Seq(ClientTexts) /\ <<>> \o <<>> = <<>>
  BY EmptySeq, ConcatEmptySeq
<1>2. Behind(<<>>) /\ Asks(<<>>) /\ toServer = <<>> \o <<>> /\ toClient = <<>>
  BY <1>1 DEF Init, Behind, Asks
<1> QED
  BY <1>1, <1>2 DEF Asking

LEMMA NoSlip ==
    ASSUME OnFiles, [Next]_vars, slip' = "none"
    PROVE  slip = "none" /\ \A k : ~Slip(k)
<1>1. \A k : ~Slip(k)
  BY DEF Slip
<1>2. slip' = slip \/ \E k : Slip(k)
  <2>1. CASE UserStep
    BY <2>1 DEF UserStep, Register, Login, FileCommand, Choose, RefuseRegistration, MissingFile,
                Exit
  <2>2. CASE ClientStep \/ ClientReadFails
    <3>1. CASE CheckLoggedIn
      BY <3>1 DEF CheckLoggedIn, GoOn, OnFiles, FileCommands, Wait
    <3>2. CASE ReadSize
      BY <3>2 DEF ReadSize, Wait
    <3> QED
      BY <2>2, <3>1, <3>2 DEF ClientStep, LastReply, ReadListing, UploadAck, ReadData,
                              ClientReadFails
  <2>3. CASE ServerStep \/ ObeyOwnText \/ TakeLock \/ ServerEnds
    BY <2>3 DEF ServerStep, ReadOption, ObeyOwnText, Obey, LoggedInCommand, ReadName, ReadPassword,
                ReadMetadata, ReadContent, ReadMarker, ReadFilename, ReadAck, ReadRequest,
                TakeLock, ServerEnds
  <2>4. CASE Break \/ ClientKilled \/ Others \/ UNCHANGED vars
    BY <2>4 DEF Break, ClientKilled, Others, vars
  <2> QED
    BY <2>1, <2>2, <2>3, <2>4 DEF Next, ClientGoesOn, ServerGoesOn
<1> QED
  BY <1>1, <1>2

\* When nothing is left to read, and the server is back in its loop, all is open.
LEMMA BackTogether ==
    ASSUME toServer' = <<>>, toClient' = <<>>, cpc' = "menu", cop' = None,
           spc' = "option", sop' = None
    PROVE  Asking'
<1>1. <<>> \in Seq(ClientTexts) /\ <<>> \o <<>> = <<>>
  BY EmptySeq, ConcatEmptySeq
<1>2. Behind(<<>>)' /\ Asks(<<>>)' /\ toServer' = <<>> \o <<>> /\ toClient' = <<>>
  BY <1>1 DEF Behind, Asks
<1> QED
  BY <1>1, <1>2 DEF Asking

\* Whoever chooses a command asks, though the server may still be behind.
LEMMA ChooseTogether ==
    ASSUME NEW o, NEW texts \in Seq(ClientTexts), NEW place, Choose(o, texts, place),
           Asking, Asks(texts)'
    PROVE  Asking'
<1>1. PICK pre, cur \in Seq(ClientTexts) : Behind(pre) /\ Asks(cur) /\ toServer = pre \o cur
  BY DEF Asking
<1>2. cpc = "menu" /\ toServer' = toServer \o texts /\ UNCHANGED <<server, toClient>>
  BY DEF Choose, ClientSends
<1>3. cur = <<>>
  BY <1>1, <1>2 DEF Asks
<1>4. toServer = pre
  BY <1>1, <1>3, ConcatEmptySeq
<1>5. Behind(pre)'
  BY <1>1, <1>2 DEF Behind, server
<1>6. toServer' = pre \o texts
  BY <1>2, <1>4
<1> QED
  BY <1>1, <1>2, <1>5, <1>6 DEF Asking

LEMMA UserTogether ==
    ASSUME UserStep, slip' = "none", \A k : ~Slip(k), up,
           Asking \/ AtServer \/ AtClient \/ Done \/ Over
    PROVE  Asking'
<1>1. CASE Register \/ Login \/ FileCommand
  <2>1. PICK o, texts, place : Choose(o, texts, place)
    BY <1>1 DEF Register, Login, FileCommand
  <2>2. Asking
    BY <2>1 DEF Choose, AtServer, AtClient, Done, Over
  <2>3. CASE Register
    <3>1. <<"register", "name", "password">> \in Seq(ClientTexts)
      BY DEF ClientTexts, Commands
    <3>2. Asks(<<"register", "name", "password">>)'
      BY <2>3 DEF Register, Choose, Asks
    <3> QED
      BY <2>2, <2>3, <3>1, <3>2, ChooseTogether DEF Register
  <2>4. CASE Login
    <3>1. <<"login", "name", "password">> \in Seq(ClientTexts)
      BY DEF ClientTexts, Commands
    <3>2. Asks(<<"login", "name", "password">>)'
      BY <2>4 DEF Login, Choose, Asks
    <3> QED
      BY <2>2, <2>4, <3>1, <3>2, ChooseTogether DEF Login
  <2>5. CASE FileCommand
    <3>1. PICK p \in FileCommands : Choose(p, <<p>>, "status")
      BY <2>5 DEF FileCommand
    <3>2. <<p>> \in Seq(ClientTexts)
      BY DEF ClientTexts, Commands
    <3>3. Asks(<<p>>)'
      BY <3>1 DEF Choose, Asks
    <3> QED
      BY <2>2, <3>1, <3>2, <3>3, ChooseTogether
  <2> QED
    BY <1>1, <2>3, <2>4, <2>5
<1>2. CASE Exit
  <2>1. Asking
    BY <1>2 DEF Exit, AtServer, AtClient, Done, Over
  <2>2. cpc = "menu" /\ cpc' = "done" /\ UNCHANGED <<cop, server, streams>>
    BY <1>2 DEF Exit
  <2>3. \A pre, cur : Behind(pre) /\ Asks(cur) => Behind(pre)' /\ Asks(cur)'
    BY <2>2 DEF Behind, Asks, server
  <2> QED
    BY <2>1, <2>2, <2>3 DEF Asking, streams
<1> QED
  BY <1>1, <1>2 DEF UserStep, RefuseRegistration, MissingFile

LEMMA ClientTogether ==
    ASSUME ClientStep, slip' = "none", \A k : ~Slip(k), up,
           Asking \/ AtServer \/ AtClient \/ Done \/ Over
    PROVE  Asking' \/ AtServer' \/ AtClient' \/ Done'
<1> USE DEF FileCommands
<1>0. /\ toClient # <<>>
      /\ \/ AtClient
         \/ Done
  BY DEF ClientStep, LastReply, CheckLoggedIn, ReadListing, UploadAck, ReadSize, ReadData,
         ClientReads, ClientReadsTwo, Asking, AtServer, Over
<1>1. CASE LastReply
  <2>1. Done /\ cpc \in {"account", "result"}
    BY <1>0, <1>1 DEF LastReply, AtClient
  <2>2. toClient' = <<>>
    BY <1>1, <2>1 DEF LastReply, ClientReads, OwnReplies, Done
  <2> QED
    BY <1>1, <2>1, <2>2, BackTogether DEF LastReply, BackToMenu, Done, server
<1>2. CASE CheckLoggedIn
  <2>1. CASE Done /\ toClient = <<"LOGIN_FAIL">>
    <3>1. toClient' = <<>> /\ BackToMenu /\ UNCHANGED <<server, toServer>>
      BY <1>2, <2>1 DEF CheckLoggedIn, SaysLoggedIn, ClientReads, OwnReplies
    <3> QED
      BY <2>1, <3>1, BackTogether DEF BackToMenu, Done, server
  <2>2. CASE Done /\ toClient # <<"LOGIN_FAIL">>
    <3>1. /\ cop = "ls" /\ toClient = <<"LOGIN_SUCCESS", "listing">>
          /\ toServer = <<>> /\ spc = "option" /\ sop = None
      BY <1>2, <2>2 DEF Done, CheckLoggedIn
    <3>2. /\ toClient' = <<"listing">> /\ Wait("listing") /\ UNCHANGED <<server, toServer>>
      BY <1>2, <3>1 DEF CheckLoggedIn, GoOn, ClientReads, OwnReplies
    <3> QED
      BY <3>1, <3>2 DEF Done, Wait, server
  <2>3. CASE AtClient
    <3>1. /\ toClient = <<"LOGIN_SUCCESS">> /\ toServer = <<>> /\ sop = cop
          /\ \/ cop = "upload" /\ spc \in {"lock", "metadata"}
             \/ cop = "download" /\ spc = "filename"
             \/ cop \in {"rename", "delete"} /\ spc \in {"lock", "request"}
      BY <1>2, <2>3 DEF AtClient, CheckLoggedIn
    <3>2. toClient' = <<>> /\ UNCHANGED server
      BY <1>2, <3>1 DEF CheckLoggedIn, ClientReads, OwnReplies
    <3>3. CASE cop = "upload"
      <4>1. /\ toServer' = <<"metadata">> \/ toServer' = <<"badMetadata">>
            /\ Wait("uploadAck")
        BY <1>2, <3>1, <3>3 DEF CheckLoggedIn, GoOn, ClientReads, ClientSends
      <4> QED
        BY <3>1, <3>2, <3>3, <4>1 DEF AtServer, Wait, server
    <3>4. CASE cop = "download"
      <4>1. toServer' = <<"file">> /\ Wait("size")
        BY <1>2, <3>1, <3>4 DEF CheckLoggedIn, GoOn, ClientReads, ClientSends
      <4> QED
        BY <3>1, <3>2, <3>4, <4>1 DEF AtServer, Wait, server
    <3>5. CASE cop = "rename"
      <4>1. toServer' = <<"names">> /\ Wait("result")
        BY <1>2, <3>1, <3>5 DEF CheckLoggedIn, GoOn, ClientReads, ClientSends
      <4> QED
        BY <3>1, <3>2, <3>5, <4>1 DEF AtServer, Wait, server
    <3>6. CASE cop = "delete"
      <4>1. toServer' = <<"file">> /\ Wait("result")
        BY <1>2, <3>1, <3>6 DEF CheckLoggedIn, GoOn, ClientReads, ClientSends
      <4> QED
        BY <3>1, <3>2, <3>6, <4>1 DEF AtServer, Wait, server
    <3> QED
      BY <3>1, <3>3, <3>4, <3>5, <3>6
  <2> QED
    BY <1>0, <2>1, <2>2, <2>3
<1>3. CASE ReadListing
  <2>1. Done /\ toClient = <<"listing">>
    BY <1>0, <1>3 DEF ReadListing, AtClient, Done
  <2>2. toClient' = <<>> /\ BackToMenu /\ UNCHANGED <<server, toServer>>
    BY <1>3, <2>1 DEF ReadListing
  <2> QED
    BY <2>1, <2>2, BackTogether DEF BackToMenu, Done, server
<1>4. CASE UploadAck
  <2>1. /\ cop = "upload" /\ spc = "content" /\ sop = "upload"
        /\ toClient = <<"OK">> /\ toServer = <<>>
    BY <1>0, <1>4 DEF UploadAck, AtClient, Done
  <2>2. /\ toClient' = <<>> /\ toServer' = toServer \o <<"content", "UPLOAD_COMPLETE">>
        /\ BackToMenu /\ UNCHANGED server
    BY <1>4, <2>1 DEF UploadAck, ClientReadsTwo, ClientSends, OwnReplies
  <2>3. /\ <<>> \in Seq(ClientTexts) /\ <<"content", "UPLOAD_COMPLETE">> \in Seq(ClientTexts)
        /\ toServer' = <<"content", "UPLOAD_COMPLETE">> \o <<>>
    BY <2>1, <2>2, EmptySeq DEF ClientTexts
  <2>4. Behind(<<"content", "UPLOAD_COMPLETE">>)' /\ Asks(<<>>)'
    BY <2>1, <2>2 DEF Behind, Asks, BackToMenu, server
  <2> QED
    BY <2>2, <2>3, <2>4 DEF Asking
<1>5. CASE ReadSize
  <2>1. CASE Done
    <3>1. toClient = <<"ERROR">>
      BY <1>5, <2>1 DEF ReadSize, Done
    <3>2. toClient' = <<>> /\ BackToMenu /\ UNCHANGED <<server, toServer>>
      BY <1>5, <3>1 DEF ReadSize, ClientReads, OwnReplies
    <3> QED
      BY <2>1, <3>2, BackTogether DEF BackToMenu, Done, server
  <2>2. CASE AtClient
    <3>1. /\ cop = "download" /\ sop = "download" /\ spc = "ack" /\ toServer = <<>>
          /\ arg \in {"size", "0"} /\ toClient = <<arg>>
      BY <1>5, <2>2 DEF ReadSize, AtClient
    <3>2. toClient' = <<>> /\ UNCHANGED server
      BY <1>5, <3>1 DEF ReadSize, ClientReads, OwnReplies
    <3>3. CASE arg = "size"
      <4>1. toServer' = <<"OK">> /\ Wait("data")
        BY <1>5, <3>1, <3>3 DEF ReadSize, ClientReads, ClientSends, OwnReplies
      <4> QED
        BY <3>1, <3>2, <3>3, <4>1 DEF AtServer, Wait, server
    <3>4. CASE arg = "0"
      <4>1. toServer' = <<"OK">> /\ BackToMenu
        BY <1>5, <3>1, <3>4 DEF ReadSize, ClientReads, ClientSends, OwnReplies
      <4>2. /\ <<>> \in Seq(ClientTexts) /\ <<"OK">> \in Seq(ClientTexts)
            /\ toServer' = <<"OK">> \o <<>>
        BY <4>1, EmptySeq DEF ClientTexts
      <4>3. Behind(<<"OK">>)' /\ Asks(<<>>)'
        BY <3>1, <3>2, <3>4, <4>1 DEF Behind, Asks, BackToMenu, server
      <4> QED
        BY <3>2, <4>2, <4>3 DEF Asking
    <3> QED
      BY <3>1, <3>3, <3>4
  <2> QED
    BY <1>0, <2>1, <2>2
<1>6. CASE ReadData
  <2>1. Done /\ toClient = <<"data">>
    BY <1>0, <1>6 DEF ReadData, AtClient, Done
  <2>2. toClient' = <<>> /\ BackToMenu /\ UNCHANGED <<server, toServer>>
    BY <1>6, <2>1 DEF ReadData
  <2> QED
    BY <2>1, <2>2, BackTogether DEF BackToMenu, Done, server
<1> QED
  BY <1>1, <1>2, <1>3, <1>4, <1>5, <1>6 DEF ClientStep

\* The server reads what is left of the last command, or the next one.
LEMMA ServerAsking ==
    ASSUME TypeOK, ServerStep, slip' = "none", \A k : ~Slip(k), Asking
    PROVE  Asking' \/ AtServer' \/ AtClient' \/ Done'
<1> USE DEF FileCommands
<1>1. PICK pre, cur \in Seq(ClientTexts) : Behind(pre) /\ Asks(cur) /\ toServer = pre \o cur
  BY DEF Asking
<1>2. toClient = <<>> /\ toServer # <<>>
  BY DEF Asking, ServerStep, ReadOption, ReadName, ReadPassword, ReadMetadata, ReadContent,
         ReadMarker, ReadFilename, ReadAck, ReadRequest, ServerReads, ServerReadsTwo
<1>3. UNCHANGED client
  BY ServerControl
<1>4. CASE pre = <<>>
  <2>1. toServer = cur /\ spc = "option" /\ sop = None /\ ReadOption
    BY <1>1, <1>4, ConcatEmptySeq
       DEF Behind, ServerStep, ReadOption, ReadName, ReadPassword, ReadMetadata, ReadContent,
           ReadMarker, ReadFilename, ReadAck, ReadRequest
  <2>2. CASE cpc = "account"
    <3>1. cop \in {"register", "login"} /\ toServer = <<cop, "name", "password">>
      BY <1>1, <2>1, <2>2 DEF Asks
    <3>2. /\ toServer' = <<"name", "password">> /\ spc' = "name" /\ sop' = cop
          /\ toClient' = toClient
      BY <2>1, <3>1 DEF ReadOption, Obey, ServerReads, Commands
    <3> QED
      BY <1>2, <1>3, <2>2, <3>1, <3>2 DEF AtServer, client
  <2>3. CASE cpc = "status"
    <3>1. cop \in FileCommands /\ toServer = <<cop>>
      BY <1>1, <2>1, <2>3 DEF Asks
    <3>2. /\ toServer' = <<>>
          /\ \/ LoggedInCommand(cop)
             \/ ServerSends(<<"LOGIN_FAIL">>) /\ UNCHANGED server
      BY <2>1, <3>1 DEF ReadOption, Obey, ServerReads, Commands
    <3>3. CASE ServerSends(<<"LOGIN_FAIL">>) /\ UNCHANGED server
      BY <1>2, <1>3, <2>1, <2>3, <3>1, <3>2, <3>3 DEF ServerSends, Done, client, server
    <3>4. CASE LoggedInCommand(cop) /\ cop = "ls"
      BY <1>2, <1>3, <2>3, <3>2, <3>4 DEF LoggedInCommand, ServerSends, Return, Done, client
    <3>5. CASE LoggedInCommand(cop) /\ cop # "ls"
      <4>1. /\ toClient' = <<"LOGIN_SUCCESS">> /\ sop' = cop
            /\ spc' = IF cop = "download" THEN "filename" ELSE "lock"
        BY <1>2, <3>5 DEF LoggedInCommand, ServerSends
      <4> QED
        BY <1>3, <2>3, <3>1, <3>2, <3>5, <4>1 DEF AtClient, client
    <3> QED
      BY <3>2, <3>3, <3>4, <3>5
  <2>4. cur # <<>>
    BY <1>2, <2>1
  <2> QED
    BY <1>1, <2>2, <2>3, <2>4 DEF Asks
<1>5. CASE pre = <<"content", "UPLOAD_COMPLETE">>
  <2>1. /\ Head(toServer) = "content" /\ Tail(toServer) = <<"UPLOAD_COMPLETE">> \o cur
    BY <1>1, <1>5, FirstOfTwo DEF ClientTexts
  <2>2. spc = "content" /\ sop = "upload" /\ ReadContent
    BY <1>1, <1>5
       DEF Behind, ServerStep, ReadOption, ReadName, ReadPassword, ReadMetadata, ReadContent,
           ReadMarker, ReadFilename, ReadAck, ReadRequest
  <2>3. toServer' = Tail(toServer) /\ spc' = "marker" /\ sop' = sop /\ toClient' = toClient
    BY <2>1, <2>2 DEF ReadContent, ReadNext
  <2>4. Behind(<<"UPLOAD_COMPLETE">>)' /\ Asks(cur)' /\ <<"UPLOAD_COMPLETE">> \in Seq(ClientTexts)
    BY <1>1, <1>3, <2>2, <2>3 DEF Behind, Asks, client, ClientTexts
  <2> QED
    BY <1>1, <1>2, <2>1, <2>3, <2>4 DEF Asking
<1>6. CASE pre = <<"UPLOAD_COMPLETE">> \/ pre = <<"OK">>
  <2>0. "UPLOAD_COMPLETE" \in ClientTexts /\ "OK" \in ClientTexts
    BY DEF ClientTexts
  <2>1. /\ pre = <<"UPLOAD_COMPLETE">> => Head(toServer) = "UPLOAD_COMPLETE"
        /\ pre = <<"OK">> => Head(toServer) = "OK"
        /\ Tail(toServer) = cur
    <3>1. CASE pre = <<"UPLOAD_COMPLETE">>
      <4>1. toServer = <<"UPLOAD_COMPLETE">> \o cur
        BY <1>1, <3>1
      <4>2. Head(toServer) = "UPLOAD_COMPLETE" /\ Tail(toServer) = cur
        BY <1>1, <2>0, <4>1, FirstRecord
      <4> QED
        BY <3>1, <4>2
    <3>2. CASE pre = <<"OK">>
      <4>1. toServer = <<"OK">> \o cur
        BY <1>1, <3>2
      <4>2. Head(toServer) = "OK" /\ Tail(toServer) = cur
        BY <1>1, <2>0, <4>1, FirstRecord
      <4> QED
        BY <3>2, <4>2
    <3> QED
      BY <1>6, <3>1, <3>2
  <2>3. \/ pre = <<"UPLOAD_COMPLETE">> /\ ReadMarker
        \/ pre = <<"OK">> /\ ReadAck /\ arg = "0"
    BY <1>1, <1>6
       DEF Behind, ServerStep, ReadOption, ReadName, ReadPassword, ReadMetadata, ReadContent,
           ReadMarker, ReadFilename, ReadAck, ReadRequest
  <2>5. toServer' = Tail(toServer) /\ toClient' = toClient /\ Return
    <3>1. CASE pre = <<"UPLOAD_COMPLETE">> /\ ReadMarker
      BY <2>1, <3>1 DEF ReadMarker, ServerReads
    <3>2. CASE pre = <<"OK">> /\ ReadAck /\ arg = "0"
      BY <2>1, <3>2 DEF ReadAck, ServerReadsTwo
    <3> QED
      BY <2>3, <3>1, <3>2
  <2>6. toServer' = <<>> \o cur
    BY <1>1, <2>1, <2>5, ConcatEmptySeq
  <2>7. Behind(<<>>)' /\ Asks(cur)' /\ <<>> \in Seq(ClientTexts)
    BY <1>1, <1>3, <2>5, EmptySeq DEF Behind, Asks, Return, client
  <2> QED
    BY <1>1, <1>2, <2>5, <2>6, <2>7 DEF Asking
<1> QED
  BY <1>1, <1>4, <1>5, <1>6 DEF Behind

\* The server reads what the client waits for an answer to.
LEMMA ServerAtServer ==
    ASSUME TypeOK, ServerStep, slip' = "none", \A k : ~Slip(k), AtServer
    PROVE  AtServer' \/ AtClient' \/ Done'
<1>0. toClient = <<>> /\ sop = cop /\ UNCHANGED client
  BY ServerControl DEF AtServer
<1>1. CASE cpc = "account" /\ spc = "name"
  <2>1. /\ cop \in {"register", "login"} /\ toServer = <<"name", "password">> /\ ReadName
    BY <1>1 DEF AtServer, ServerStep, ReadOption, ReadName, ReadPassword, ReadMetadata,
                ReadContent, ReadMarker, ReadFilename, ReadAck, ReadRequest
  <2>2. /\ toServer' = <<"password">> /\ arg' = "name" /\ spc' = "password"
        /\ UNCHANGED <<sop, toClient>>
    BY <2>1 DEF ReadName, ServerReads
  <2> QED
    BY <1>0, <1>1, <2>1, <2>2 DEF AtServer, client
<1>2. CASE cpc = "account" /\ spc = "password"
  <2>1. /\ cop \in {"register", "login"} /\ toServer = <<"password">> /\ arg = "name"
        /\ ReadPassword
    BY <1>2 DEF AtServer, ServerStep, ReadOption, ReadName, ReadPassword, ReadMetadata,
                ReadContent, ReadMarker, ReadFilename, ReadAck, ReadRequest
  <2>2. /\ toServer' = <<>> /\ spc' = "option" /\ sop' = None
        /\ \E a \in AccountAnswers("name", "password") : toClient' = <<a>>
    BY <1>0, <2>1 DEF ReadPassword, ServerReads, ServerSends
  <2>3. PICK a \in AccountAnswers("name", "password") : toClient' = <<a>>
    BY <2>2
  <2>4. \/ cop = "login" /\ a \in {"LOGIN_SUCCESS", "USER_NOT_FOUND", "WRONG_PASSWORD"}
        \/ cop = "register" /\ a \in {"OK", "USER_EXISTS"}
    BY <1>0, <2>1, <2>3 DEF AccountAnswers
  <2>5. cpc' = "account" /\ cop' = cop
    BY <1>0, <1>2 DEF client
  <2> QED
    BY <2>2, <2>3, <2>4, <2>5 DEF Done
<1>3. CASE cpc = "uploadAck"
  <2>1. /\ cop = "upload" /\ (toServer = <<"metadata">> \/ toServer = <<"badMetadata">>)
        /\ ReadMetadata
    BY <1>3 DEF AtServer, ServerStep, ReadOption, ReadName, ReadPassword, ReadMetadata,
                ReadContent, ReadMarker, ReadFilename, ReadAck, ReadRequest
  <2>2. toServer' = <<>> /\ toClient' = <<"OK">> /\ spc' = "content" /\ sop' = sop
    BY <1>0, <2>1 DEF ReadMetadata, ServerReads, ServerSends, ReadNext, OwnTexts
  <2> QED
    BY <1>0, <1>3, <2>1, <2>2 DEF AtClient, client
<1>4. CASE cpc = "size"
  <2>1. cop = "download" /\ toServer = <<"file">> /\ ReadFilename
    BY <1>4 DEF AtServer, ServerStep, ReadOption, ReadName, ReadPassword, ReadMetadata,
                ReadContent, ReadMarker, ReadFilename, ReadAck, ReadRequest
  <2>2. /\ toServer' = <<>>
        /\ \/ \E size \in {"size", "0"} :
                toClient' = <<size>> /\ spc' = "ack" /\ arg' = size /\ sop' = sop
           \/ toClient' = <<"ERROR">> /\ spc' = "option" /\ sop' = None
    BY <1>0, <2>1 DEF ReadFilename, ServerReads, ServerSends, Return
  <2>3. CASE toClient' = <<"ERROR">> /\ spc' = "option" /\ sop' = None
    BY <1>0, <1>4, <2>1, <2>2, <2>3 DEF Done, client
  <2>4. CASE \E size \in {"size", "0"} :
                toClient' = <<size>> /\ spc' = "ack" /\ arg' = size /\ sop' = sop
    BY <1>0, <1>4, <2>1, <2>2, <2>4 DEF AtClient, client
  <2> QED
    BY <2>2, <2>3, <2>4
<1>5. CASE cpc = "data"
  <2>1. cop = "download" /\ toServer = <<"OK">> /\ arg = "size" /\ ReadAck
    BY <1>5 DEF AtServer, ServerStep, ReadOption, ReadName, ReadPassword, ReadMetadata,
                ReadContent, ReadMarker, ReadFilename, ReadAck, ReadRequest
  <2>2. toServer' = <<>> /\ toClient' = <<"data">> /\ spc' = "option" /\ sop' = None
    BY <1>0, <2>1 DEF ReadAck, ServerReadsTwo, ServerSends, Return, OwnTexts
  <2> QED
    BY <1>0, <1>5, <2>1, <2>2 DEF Done, client
<1>6. CASE cpc = "result"
  <2>1. /\ cop \in {"rename", "delete"} /\ (toServer = <<"names">> \/ toServer = <<"file">>)
        /\ ReadRequest
    BY <1>6 DEF AtServer, ServerStep, ReadOption, ReadName, ReadPassword, ReadMetadata,
                ReadContent, ReadMarker, ReadFilename, ReadAck, ReadRequest
  <2>2. toServer' = <<>>
    <3>1. CASE toServer = <<"names">>
      BY <2>1, <3>1 DEF ReadRequest, ServerReads
    <3>2. CASE toServer = <<"file">>
      BY <2>1, <3>2 DEF ReadRequest, ServerReads
    <3> QED
      BY <2>1, <3>1, <3>2
  <2>3. /\ toClient' = <<"SUCCESS">> \/ toClient' = <<"ERROR">>
        /\ spc' = "option" /\ sop' = None
    BY <1>0, <2>1 DEF ReadRequest, ServerSends, Return
  <2> QED
    BY <1>0, <1>6, <2>1, <2>2, <2>3 DEF Done, client
<1> QED
  BY <1>1, <1>2, <1>3, <1>4, <1>5, <1>6 DEF AtServer

LEMMA ServerTogether ==
    ASSUME TypeOK, ServerStep \/ TakeLock \/ ServerEnds, slip' = "none", \A k : ~Slip(k), up,
           Asking \/ AtServer \/ AtClient \/ Done \/ Over
    PROVE  Asking' \/ AtServer' \/ AtClient' \/ Done' \/ Over'
<1>1. CASE ServerStep
  <2>1. toServer # <<>>
    BY <1>1 DEF ServerStep, ReadOption, ReadName, ReadPassword, ReadMetadata, ReadContent,
                ReadMarker, ReadFilename, ReadAck, ReadRequest, ServerReads, ServerReadsTwo
  <2>2. Asking \/ AtServer
    BY <2>1 DEF AtClient, Done, Over
  <2> QED
    BY <1>1, <2>2, ServerAsking, ServerAtServer
<1>2. CASE ServerEnds
  <2>1. /\ toServer = <<>> /\ cpc \in {"done", "aborted"} /\ spc' = "ended" /\ sop' = None
        /\ UNCHANGED <<client, streams>>
    BY <1>2 DEF ServerEnds
  <2>2. (Asking \/ Over) /\ cpc = "done"
    BY <2>1 DEF AtServer, AtClient, Done, Over, Asking, Asks
  <2>3. cop = None /\ toClient = <<>>
    BY <2>2 DEF Asking, Asks, Over
  <2> QED
    BY <2>1, <2>2, <2>3 DEF Over, client, streams
<1>3. CASE TakeLock
  <2>1. /\ spc = "lock" /\ UNCHANGED <<client, streams, sop, arg>>
        /\ spc' = IF sop = "upload" THEN "metadata" ELSE "request"
    BY <1>3 DEF TakeLock, ReadNext
  <2>2. AtServer \/ AtClient
    BY <2>1 DEF Asking, Behind, Done, Over
  <2> QED
    BY <2>1, <2>2 DEF AtServer, AtClient, client, streams
<1> QED
  BY <1>1, <1>2, <1>3

\* What is asked is there to be read.
LEMMA AskingFirst ==
    ASSUME Asking
    PROVE  /\ toServer # <<>> => Head(toServer) \in Awaited
           /\ sop # None => Trailing
           /\ toServer = <<>> => cpc \in {"menu", "done"}
<1>1. PICK pre, cur \in Seq(ClientTexts) : Behind(pre) /\ Asks(cur) /\ toServer = pre \o cur
  BY DEF Asking
<1>2. CASE pre = <<>>
  <2>1. toServer = cur /\ spc = "option" /\ sop = None
    BY <1>1, <1>2, ConcatEmptySeq DEF Behind
  <2>2. \/ toServer = <<>> /\ cpc \in {"menu", "done"}
        \/ toServer # <<>> /\ Head(toServer) = cop /\ cop \in Commands
    <3>1. CASE cur = <<>>
      BY <1>1, <2>1, <3>1 DEF Asks
    <3>2. CASE cur = <<cop, "name", "password">> /\ cop \in {"register", "login"}
      BY <2>1, <3>2 DEF Commands
    <3>3. CASE cur = <<cop>> /\ cop \in FileCommands
      BY <2>1, <3>3 DEF Commands
    <3> QED
      BY <1>1, <3>1, <3>2, <3>3 DEF Asks
  <2> QED
    BY <2>1, <2>2 DEF Awaited
<1>3. CASE pre = <<"content", "UPLOAD_COMPLETE">>
  <2>1. toServer # <<>> /\ Head(toServer) = "content"
    BY <1>1, <1>3, FirstOfTwo DEF ClientTexts
  <2> QED
    BY <1>1, <1>3, <2>1 DEF Behind, Awaited, Trailing
<1>4. ASSUME NEW x \in ClientTexts, pre = <<x>>
      PROVE  toServer # <<>> /\ Head(toServer) = x
  BY <1>1, <1>4, FirstRecord
<1>5. CASE pre = <<"UPLOAD_COMPLETE">>
  <2>1. toServer # <<>> /\ Head(toServer) = "UPLOAD_COMPLETE"
    BY <1>4, <1>5 DEF ClientTexts
  <2> QED
    BY <1>1, <1>5, <2>1 DEF Behind, Awaited, Trailing
<1>6. CASE pre = <<"OK">>
  <2>1. toServer # <<>> /\ Head(toServer) = "OK"
    BY <1>4, <1>6 DEF ClientTexts
  <2> QED
    BY <1>1, <1>6, <2>1 DEF Behind, Awaited, Trailing
<1> QED
  BY <1>1, <1>2, <1>3, <1>5, <1>6 DEF Behind

LEMMA TogetherIsInStep == Together => InStep
<1> SUFFICES ASSUME Together, slip = "none"
             PROVE  /\ toServer # <<>> => Head(toServer) \in Awaited
                    /\ toClient # <<>> => Head(toClient) \in Expected
                    /\ sop # None /\ up => sop = cop \/ Trailing
  BY DEF InStep
<1>1. CASE ~up
  BY <1>1 DEF Together
<1>2. CASE up /\ Asking
  BY <1>2, AskingFirst DEF Asking
<1>3. CASE up /\ AtServer
  BY <1>3 DEF AtServer, Awaited
<1>4. CASE up /\ AtClient
  BY <1>4 DEF AtClient, Expected, AtMenu
<1>5. CASE up /\ Done
  BY <1>5 DEF Done, Expected, AtMenu
<1>6. CASE up /\ Over
  BY <1>6 DEF Over
<1> QED
  BY <1>1, <1>2, <1>3, <1>4, <1>5, <1>6 DEF Together

LEMMA TogetherNext == TypeOK /\ OnFiles /\ Together /\ [Next]_vars => Together'
<1> SUFFICES ASSUME TypeOK, OnFiles, Together, [Next]_vars, slip' = "none"
             PROVE  Together'
  BY DEF Together
<1>0. slip = "none" /\ \A k : ~Slip(k)
  BY NoSlip
<1>a. ~ObeyOwnText
  BY <1>0, TogetherIsInStep DEF InStep, ObeyOwnText, Awaited, OwnTexts, Commands, FileCommands
<1>1. CASE up
  <2>0. Asking \/ AtServer \/ AtClient \/ Done \/ Over
    BY <1>0, <1>1 DEF Together
  <2>1. CASE UserStep
    <3>1. Asking' /\ up'
      BY <1>0, <1>1, <2>0, <2>1, UserTogether, ClientControl
    <3> QED
      BY <3>1 DEF Together
  <2>2. CASE ClientStep
    <3>1. (Asking' \/ AtServer' \/ AtClient' \/ Done') /\ up'
      BY <1>0, <1>1, <2>0, <2>2, ClientTogether, ClientControl
    <3> QED
      BY <3>1 DEF Together
  <2>3. CASE ServerStep \/ TakeLock \/ ServerEnds
    <3>1. (Asking' \/ AtServer' \/ AtClient' \/ Done' \/ Over') /\ up'
      BY <1>0, <1>1, <2>0, <2>3, ServerTogether, ServerControl
    <3> QED
      BY <3>1 DEF Together
  <2>4. CASE Break
    BY <2>4 DEF Break, Together
  <2>5. CASE Others \/ UNCHANGED vars
    BY <1>1, <2>0, <2>5
       DEF Others, Together, Asking, Behind, Asks, AtServer, AtClient, Done, Over, vars, client, server,
           streams
  <2> QED
    BY <1>1, <1>a, <2>1, <2>2, <2>3, <2>4, <2>5
       DEF Next, ClientGoesOn, ServerGoesOn, ClientReadFails, ClientKilled
<1>2. CASE ~up
  <2>0. toServer = <<>> /\ toClient = <<>>
    BY <1>0, <1>2 DEF Together
  <2>1. ~UserStep \/ Exit
    BY <1>2 DEF UserStep, Register, Login, FileCommand, Choose, RefuseRegistration, MissingFile,
                ClientSends
  <2>2. ~ClientStep /\ ~ServerStep /\ ~Break
    BY <1>2, <2>0 DEF ClientStep, LastReply, CheckLoggedIn, ReadListing, UploadAck, ReadSize,
       ReadData, ClientReads, ClientReadsTwo, ServerStep, ReadOption, ReadName, ReadPassword,
       ReadMetadata, ReadContent, ReadMarker, ReadFilename, ReadAck, ReadRequest, ServerReads,
       ServerReadsTwo, Break
  <2>3. UNCHANGED streams /\ up' = up
    BY <1>a, <2>1, <2>2
       DEF Next, ClientGoesOn, ServerGoesOn, ClientReadFails, ClientKilled, TakeLock, ServerEnds,
           Others, Exit, vars
  <2> QED
    BY <1>2, <2>0, <2>3 DEF Together, streams
<1> QED
  BY <1>1, <1>2

LEMMA TogetherIsNotStuck == Together => StuckOnlyBySlip
<1> SUFFICES ASSUME Together, slip = "none", up
             PROVE  ~Stuck /\ cpc # "aborted"
  BY DEF StuckOnlyBySlip, Stuck
<1>1. CASE Asking
  BY <1>1, AskingFirst DEF Asking, Asks, Stuck, AtReply
<1>2. CASE AtServer \/ AtClient \/ Done \/ Over
  BY <1>2 DEF AtServer, AtClient, Done, Over, Stuck, AtReply
<1> QED
  BY <1>1, <1>2 DEF Together

\* The five slips are the only ways in which the two programs lose each other:
\* until one happens, every text is read by the read it was written for.
THEOREM TheyUnderstandEachOther == Spec => []InStep
  BY TypeInit, TypeNext, TogetherInit, TogetherNext, TogetherIsInStep, PTL DEF Spec

\* Until one happens, the client and the handler never both wait for the other,
\* and no text ends the client.
THEOREM OnlyASlipBlocks == Spec => []StuckOnlyBySlip
  BY TypeInit, TypeNext, TogetherInit, TogetherNext, TogetherIsNotStuck, PTL DEF Spec
-----------------------------------------------------------------------------
(* A dialogue *)

LEMMA SlipStays ==
    ASSUME OnFiles, [Next]_vars, slip # "none"
    PROVE  slip' # "none"
  BY NoSlip

LEMMA UpStays ==
    ASSUME TypeOK, OnFiles, [Next]_vars
    PROVE  ~up => ~up'
<1>1. CASE UserStep \/ ClientStep \/ ClientReadFails
  BY <1>1, ClientControl
<1>2. CASE ServerStep \/ ObeyOwnText \/ TakeLock \/ ServerEnds
  BY <1>2, ServerControl
<1>3. CASE Break \/ ClientKilled \/ Others \/ UNCHANGED vars
  BY <1>3 DEF Break, ClientKilled, Others, vars
<1> QED
  BY <1>1, <1>2, <1>3 DEF Next, ClientGoesOn, ServerGoesOn

LEMMA AnswerInIs ==
    /\ \A o : AnswerIn(o, <<>>) = None
    /\ \A o \in Commands, t \in ServerTexts :
         AnswerIn(o, <<t>>) = IF t \in Answers[o] THEN t ELSE None
    /\ AnswerIn("ls", <<"LOGIN_SUCCESS", "listing">>) = "listing"
    /\ \A o, s : AnswerIn(o, s) # None => o # None /\ AnswerIn(o, s) \in Answers[o]
<1>1. \A o : AnswerIn(o, <<>>) = None
  BY DEF AnswerIn
<1>2. \A t : <<t>> # <<>> /\ Last(<<t>>) = t
  BY DEF Last
<1>3. \A o \in Commands, t \in ServerTexts :
        AnswerIn(o, <<t>>) = IF t \in Answers[o] THEN t ELSE None
  <2> TAKE o \in Commands, t \in ServerTexts
  <2>1. o # None
    BY ConnectionAssumption DEF ConnectionAssumption
  <2>2. <<t>> # <<>> /\ Last(<<t>>) = t
    BY <1>2
  <2> QED
    BY <2>1, <2>2 DEF AnswerIn
<1>4. AnswerIn("ls", <<"LOGIN_SUCCESS", "listing">>) = "listing"
  <2>1. Last(<<"LOGIN_SUCCESS", "listing">>) = "listing"
    BY DEF Last
  <2>2. "listing" \in Answers["ls"]
    BY DEF Answers
  <2>3. "ls" # None
    BY ConnectionAssumption DEF ConnectionAssumption, Commands, FileCommands
  <2> QED
    BY <2>1, <2>2, <2>3 DEF AnswerIn
<1>5. \A o, s : AnswerIn(o, s) # None => o # None /\ AnswerIn(o, s) \in Answers[o]
  BY DEF AnswerIn
<1> QED
  BY <1>1, <1>3, <1>4, <1>5

\* A command ends for the client when it reads the answer, and not before.
LEMMA ClientLearns ==
    ASSUME ClientStep, slip' = "none", \A k : ~Slip(k), AtClient \/ Done
    PROVE  \/ cop' = None /\ AnswerIn(cop, toClient) # None
           \/ cop' = cop /\ AnswerIn(cop, toClient') = AnswerIn(cop, toClient)
<1> USE DEF FileCommands
<1>0. None \notin ServerTexts
  BY ConnectionAssumption DEF ConnectionAssumption
<1>a. ASSUME NEW o \in Commands, NEW t \in ServerTexts, t \in Answers[o]
      PROVE  AnswerIn(o, <<t>>) # None
  BY <1>0, <1>a, AnswerInIs
<1>b. \A o \in FileCommands : AnswerIn(o, <<"LOGIN_SUCCESS">>) = None
  <2>1. \A o \in FileCommands : o \in Commands /\ "LOGIN_SUCCESS" \notin Answers[o]
    BY DEF Answers, Commands
  <2> QED
    BY <2>1, AnswerInIs DEF ServerTexts
<1>1. CASE LastReply
  <2>1. cop' = None /\ Done /\ cpc \in {"account", "result"}
    BY <1>1 DEF LastReply, BackToMenu, AtClient
  <2>2. CASE cpc = "result"
    <3>1. /\ cop \in {"rename", "delete"} /\ cop \in Commands
          /\ toClient = <<"SUCCESS">> \/ toClient = <<"ERROR">>
      BY <2>1, <2>2 DEF Done, Commands
    <3>2. {"SUCCESS", "ERROR"} \subseteq Answers[cop] \cap ServerTexts
      BY <3>1 DEF Answers, ServerTexts
    <3> QED
      BY <1>a, <2>1, <3>1, <3>2
  <2>3. CASE cpc = "account" /\ cop = "register"
    <3>1. /\ cop \in Commands
          /\ toClient = <<"OK">> \/ toClient = <<"USER_EXISTS">>
      BY <2>1, <2>3 DEF Done, Commands
    <3>2. {"OK", "USER_EXISTS"} \subseteq Answers[cop] \cap ServerTexts
      BY <2>3 DEF Answers, ServerTexts
    <3> QED
      BY <1>a, <2>1, <3>1, <3>2
  <2>4. CASE cpc = "account" /\ cop = "login"
    <3>1. /\ cop \in Commands
          /\ \/ toClient = <<"LOGIN_SUCCESS">> \/ toClient = <<"USER_NOT_FOUND">>
             \/ toClient = <<"WRONG_PASSWORD">>
      BY <2>1, <2>4 DEF Done, Commands
    <3>2. {"LOGIN_SUCCESS", "USER_NOT_FOUND", "WRONG_PASSWORD"}
            \subseteq Answers[cop] \cap ServerTexts
      BY <2>4 DEF Answers, ServerTexts
    <3> QED
      BY <1>a, <2>1, <3>1, <3>2
  <2> QED
    BY <2>1, <2>2, <2>3, <2>4 DEF Done
<1>2. CASE CheckLoggedIn
  <2>1. CASE Done /\ toClient = <<"LOGIN_FAIL">>
    <3>1. cop' = None /\ cop \in FileCommands /\ cop \in Commands
      BY <1>2, <2>1 DEF CheckLoggedIn, SaysLoggedIn, ClientReads, BackToMenu, Done, Commands
    <3>2. "LOGIN_FAIL" \in Answers[cop] /\ "LOGIN_FAIL" \in ServerTexts
      BY <3>1 DEF Answers, ServerTexts
    <3> QED
      BY <1>a, <2>1, <3>1, <3>2
  <2>2. CASE Done /\ toClient # <<"LOGIN_FAIL">>
    <3>1. cop = "ls" /\ toClient = <<"LOGIN_SUCCESS", "listing">>
      BY <1>2, <2>2 DEF Done, CheckLoggedIn
    <3>2. toClient' = <<"listing">> /\ cop' = cop
      BY <1>2, <3>1 DEF CheckLoggedIn, GoOn, ClientReads, OwnReplies, Wait
    <3>3. "ls" \in Commands /\ "listing" \in ServerTexts /\ "listing" \in Answers["ls"]
      BY DEF Commands, ServerTexts, Answers
    <3>4. AnswerIn("ls", <<"listing">>) = "listing"
      BY <3>3, AnswerInIs
    <3> QED
      BY <3>1, <3>2, <3>4, AnswerInIs
  <2>3. CASE AtClient
    <3>1. toClient = <<"LOGIN_SUCCESS">> /\ cop \in {"upload", "download", "rename", "delete"}
      BY <1>2, <2>3 DEF AtClient, CheckLoggedIn
    <3>2. toClient' = <<>>
      BY <1>2, <3>1 DEF CheckLoggedIn, ClientReads, OwnReplies
    <3>3. \/ Wait("uploadAck") \/ Wait("size") \/ Wait("result")
      <4>1. CASE cop = "upload"
        BY <1>2, <3>1, <4>1 DEF CheckLoggedIn, GoOn, ClientReads
      <4>2. CASE cop = "download"
        BY <1>2, <3>1, <4>2 DEF CheckLoggedIn, GoOn, ClientReads
      <4>3. CASE cop = "rename"
        BY <1>2, <3>1, <4>3 DEF CheckLoggedIn, GoOn, ClientReads
      <4>4. CASE cop = "delete"
        BY <1>2, <3>1, <4>4 DEF CheckLoggedIn, GoOn, ClientReads
      <4> QED
        BY <3>1, <4>1, <4>2, <4>3, <4>4
    <3>4. cop' = cop
      BY <3>3 DEF Wait
    <3> QED
      BY <1>b, <3>1, <3>2, <3>4, AnswerInIs
  <2> QED
    BY <2>1, <2>2, <2>3
<1>3. CASE ReadListing
  <2>1. cop' = None /\ cop = "ls" /\ toClient = <<"listing">>
    BY <1>3 DEF ReadListing, BackToMenu, AtClient, Done
  <2>2. "ls" \in Commands /\ "listing" \in ServerTexts /\ "listing" \in Answers["ls"]
    BY DEF Commands, ServerTexts, Answers
  <2> QED
    BY <1>a, <2>1, <2>2
<1>4. CASE UploadAck
  <2>1. cop' = None /\ cop = "upload" /\ toClient = <<"OK">>
    BY <1>4 DEF UploadAck, BackToMenu, AtClient, Done
  <2>2. "upload" \in Commands /\ "OK" \in ServerTexts /\ "OK" \in Answers["upload"]
    BY DEF Commands, ServerTexts, Answers
  <2> QED
    BY <1>a, <2>1, <2>2
<1>5. CASE ReadSize
  <2>0. /\ "download" \in Commands /\ {"ERROR", "0", "size"} \subseteq ServerTexts
        /\ "size" \notin Answers["download"] /\ {"ERROR", "0"} \subseteq Answers["download"]
    BY DEF Commands, ServerTexts, Answers
  <2>1. /\ cop = "download"
        /\ toClient = <<"ERROR">> \/ toClient = <<"size">> \/ toClient = <<"0">>
    BY <1>5 DEF ReadSize, AtClient, Done
  <2>2. CASE toClient = <<"size">>
    <3>1. toClient' = <<>> /\ cop' = cop
      BY <1>5, <2>2 DEF ReadSize, ClientReads, Wait, OwnReplies
    <3>2. AnswerIn("download", <<"size">>) = None
      BY <2>0, AnswerInIs
    <3> QED
      BY <2>1, <2>2, <3>1, <3>2, AnswerInIs
  <2>3. CASE toClient = <<"ERROR">>
    <3>1. cop' = None
      BY <1>5, <2>3 DEF ReadSize, ClientReads, BackToMenu, OwnReplies
    <3> QED
      BY <1>a, <2>0, <2>1, <2>3, <3>1
  <2>4. CASE toClient = <<"0">>
    <3>1. cop' = None
      BY <1>5, <2>4 DEF ReadSize, ClientReads, BackToMenu, OwnReplies
    <3> QED
      BY <1>a, <2>0, <2>1, <2>4, <3>1
  <2> QED
    BY <2>1, <2>2, <2>3, <2>4
<1>6. CASE ReadData
  <2>1. cop' = None /\ cop = "download" /\ toClient = <<"data">>
    BY <1>6 DEF ReadData, BackToMenu, AtClient, Done
  <2>2. "download" \in Commands /\ "data" \in ServerTexts /\ "data" \in Answers["download"]
    BY DEF Commands, ServerTexts, Answers
  <2> QED
    BY <1>a, <2>1, <2>2
<1> QED
  BY <1>1, <1>2, <1>3, <1>4, <1>5, <1>6 DEF ClientStep

LEMMA TogetherTalks ==
    ASSUME TypeOK, TypeOK', OnFiles, Together, Together', [Next]_vars
    PROVE  [Talk!Next]_(Talk!vars)
<1> DEFINE A == IF Whole THEN cop ELSE None
           B == IF Whole THEN AnswerIn(cop, toClient) ELSE None
           W == Whole
<1>a. A' = A /\ B' = B /\ (~W)' = ~W => UNCHANGED Talk!vars
  BY DEF Talk!vars
<1>b. A' = None /\ B' = None /\ ~(W') => Talk!GiveUp
  BY DEF Talk!GiveUp
<1>c. B # None /\ A' = None /\ B' = None /\ (~W)' = ~W => Talk!Learn
  BY DEF Talk!Learn
<1>1. CASE ~Whole
  <2>1. ~Whole'
    BY <1>1, SlipStays, UpStays DEF Whole
  <2> QED
    BY <1>a, <1>1, <2>1
<1>2. CASE Whole /\ ~Whole'
  BY <1>b, <1>2 DEF Talk!Next
<1>3. CASE Whole /\ Whole'
  <2>0. /\ up /\ up' /\ slip = "none" /\ slip' = "none"
        /\ A = cop /\ A' = cop' /\ W /\ W'
        /\ B = AnswerIn(cop, toClient) /\ B' = AnswerIn(cop', toClient')
        /\ None \notin Commands
    BY <1>3, ConnectionAssumption DEF Whole, ConnectionAssumption
  <2>a. ~ObeyOwnText
    BY <2>0, TogetherIsInStep DEF InStep, ObeyOwnText, Awaited, OwnTexts, Commands, FileCommands
  <2>1. /\ \A k : ~Slip(k)
        /\ Asking \/ AtServer \/ AtClient \/ Done \/ Over
        /\ Asking' \/ AtServer' \/ AtClient' \/ Done' \/ Over'
    BY <2>0, NoSlip DEF Together
  <2>2. CASE UserStep
    <3>1. CASE Register \/ Login \/ FileCommand
      <4>1. PICK o, texts, place : o \in Commands /\ Choose(o, texts, place)
        BY <3>1 DEF Register, Login, FileCommand, Commands
      <4>2. cpc = "menu" /\ cop' = o /\ toClient' = toClient
        BY <4>1 DEF Choose
      <4>3. cop = None /\ toClient = <<>>
        BY <2>1, <4>2 DEF Asking, Asks, AtServer, AtClient, Done, Over
      <4>4. A = None /\ A' = o /\ B = None /\ B' = None
        BY <2>0, <4>2, <4>3, AnswerInIs
      <4>5. Talk!Ask(o)
        BY <2>0, <4>4 DEF Talk!Ask
      <4> QED
        BY <4>1, <4>5 DEF Talk!Next
    <3>2. CASE Exit
      <4>1. cop' = cop /\ toClient' = toClient
        BY <3>2 DEF Exit, streams
      <4> QED
        BY <1>a, <2>0, <4>1
    <3> QED
      BY <2>1, <2>2, <3>1, <3>2 DEF UserStep, RefuseRegistration, MissingFile
  <2>3. CASE ClientStep
    <3>1. AtClient \/ Done
      BY <2>1, <2>3 DEF ClientStep, LastReply, CheckLoggedIn, ReadListing, UploadAck, ReadSize,
                        ReadData, ClientReads, ClientReadsTwo, Asking, AtServer, Over
    <3>2. \/ cop' = None /\ B # None
          \/ cop' = cop /\ B' = B
      BY <2>0, <2>1, <2>3, <3>1, ClientLearns
    <3>3. CASE cop' = None /\ B # None
      <4>1. B' = None
        BY <2>0, <3>3, AnswerInIs
      <4>2. Talk!Learn
        BY <1>c, <2>0, <3>3, <4>1
      <4> QED
        BY <4>2 DEF Talk!Next
    <3>4. CASE cop' = cop /\ B' = B
      BY <1>a, <2>0, <3>4
    <3> QED
      BY <3>2, <3>3, <3>4
  <2>4. CASE ServerStep
    <3>1. toClient = <<>>
      BY <2>1, <2>4 DEF ServerStep, ReadOption, ReadName, ReadPassword, ReadMetadata, ReadContent,
            ReadMarker, ReadFilename, ReadAck, ReadRequest, ServerReads, ServerReadsTwo, Asking,
            AtServer, AtClient, Done, Over
    <3>2. cop' = cop /\ B = None
      BY <2>0, <2>4, <3>1, ServerControl, AnswerInIs DEF client
    <3>3. CASE B' = None
      BY <1>a, <2>0, <3>2, <3>3
    <3>4. CASE B' # None
      <4>1. A # None /\ A \in Commands /\ B' \in Answers[A] /\ A' = A
        BY <2>0, <3>2, <3>4, AnswerInIs DEF TypeOK
      <4>2. Talk!Answer(B')
        BY <2>0, <3>2, <4>1 DEF Talk!Answer
      <4> QED
        BY <4>1, <4>2 DEF Talk!Next
    <3> QED
      BY <3>3, <3>4
  <2>5. CASE TakeLock \/ ServerEnds \/ Others \/ UNCHANGED vars
    <3>1. cop' = cop /\ toClient' = toClient
      BY <2>5 DEF TakeLock, ServerEnds, Others, vars, client, streams
    <3> QED
      BY <1>a, <2>0, <3>1
  <2> QED
    BY <2>0, <2>2, <2>3, <2>4, <2>5, <2>a
       DEF Next, ClientGoesOn, ServerGoesOn, ClientReadFails, ClientKilled, Break
<1> QED
  BY <1>1, <1>2, <1>3

\* Until a slip or the end of the connection, a user who sees only commands and
\* their answers cannot tell the two programs from a Dialogue.
THEOREM ItIsADialogue == Spec => IsDialogue
<1>1. Init => Talk!Init
  <2> SUFFICES ASSUME Init PROVE Talk!Init
    OBVIOUS
  <2>1. Whole /\ cop = None /\ AnswerIn(cop, toClient) = None
    BY AnswerInIs DEF Init, Whole
  <2> QED
    BY <2>1 DEF Talk!Init
<1>2. TypeOK /\ TypeOK' /\ OnFiles /\ Together /\ Together' /\ [Next]_vars
        => [Talk!Next]_(Talk!vars)
  BY TogetherTalks
<1> QED
  BY <1>1, <1>2, TypeInit, TypeNext, TogetherInit, TogetherNext, PTL
     DEF Spec, IsDialogue, Talk!Spec
-----------------------------------------------------------------------------
(* Without the slips *)

SlipFree == slip = "none"

LEMMA SlipNeedsKind ==
    ASSUME Slips = {}, OnFiles, SlipFree, [Next]_vars
    PROVE  SlipFree'
<1>1. \A k : ~Slip(k)
  BY DEF Slip, SlipFree
<1>2. slip' = slip
  <2>1. CASE UserStep
    BY <1>1, <2>1 DEF UserStep, Register, Login, FileCommand, Choose, RefuseRegistration,
                      MissingFile, Exit
  <2>2. CASE ClientStep \/ ClientReadFails
    <3>1. CASE CheckLoggedIn
      BY <1>1, <3>1 DEF CheckLoggedIn, GoOn, OnFiles, FileCommands, Wait
    <3>2. CASE ReadSize
      BY <1>1, <3>2 DEF ReadSize, Wait
    <3> QED
      BY <1>1, <2>2, <3>1, <3>2 DEF ClientStep, LastReply, ReadListing, UploadAck, ReadData,
                                    ClientReadFails
  <2>3. CASE ServerStep \/ ObeyOwnText \/ TakeLock \/ ServerEnds
    BY <1>1, <2>3 DEF ServerStep, ReadOption, ObeyOwnText, Obey, LoggedInCommand, ReadName,
                      ReadPassword, ReadMetadata, ReadContent, ReadMarker, ReadFilename, ReadAck,
                      ReadRequest, TakeLock, ServerEnds
  <2>4. CASE Break \/ ClientKilled \/ Others \/ UNCHANGED vars
    BY <2>4 DEF Break, ClientKilled, Others, vars
  <2> QED
    BY <2>1, <2>2, <2>3, <2>4 DEF Next, ClientGoesOn, ServerGoesOn
<1> QED
  BY <1>2 DEF SlipFree

\* The promise of the protocol, broken by the code as it stands, holds of the
\* code without its five slips: were a refused registration, a missing file, a
\* command the server leaves without a word, a transfer left by one side and a
\* long list mended, the two programs would never wait for each other, and
\* nothing else in the two handlers would have to change.
THEOREM NeverStuckOnceMended ==
    ASSUME Slips = {}
    PROVE  Spec => []NeverStuck
<1>1. Init => SlipFree
  BY DEF Init, SlipFree
<1>2. OnFiles /\ SlipFree /\ [Next]_vars => SlipFree'
  BY SlipNeedsKind
<1>3. StuckOnlyBySlip /\ SlipFree => NeverStuck
  BY DEF StuckOnlyBySlip, SlipFree, NeverStuck
<1> QED
  BY <1>1, <1>2, <1>3, TypeInit, TypeNext, OnlyASlipBlocks, PTL DEF Spec
=============================================================================
