----------------------------- MODULE Connection -----------------------------
(***************************************************************************)
(* One client and the handler that serves it, with the two streams of      *)
(* records between them.                                                   *)
(*                                                                         *)
(* Nothing in the protocol says which command a text belongs to: the two   *)
(* programs understand each other as long as each reads what the other     *)
(* wrote for that read.  A record is one SSL_write, and an SSL_read takes  *)
(* at most one of them; a buffer shorter than the record leaves its rest.  *)
(* A text stands for all texts that the two sides treat alike.             *)
(*                                                                         *)
(* Where one side leaves a command that the other is still in, the model   *)
(* says that it slips.  From then on a text may come to a read that it was *)
(* not written for; what a user typed or stored may then be any word.      *)
(*                                                                         *)
(* A handler that writes to a folder waits for the mutex of its user,      *)
(* which another session of that user may hold.                            *)
(***************************************************************************)
EXTENDS Naturals, Sequences, SequencesExt

CONSTANTS Slips,      \* the slips that can come first; after one, all can
          MaxUnread,  \* bound: records that one side has sent and the other not read
          MaxAfter,   \* bound: commands chosen, or found in a user's own text, after a slip
          None

FileCommands == {"ls", "upload", "download", "rename", "delete"}
Commands     == {"register", "login"} \cup FileCommands

ClientTexts == Commands \cup {"error", "name", "password", "metadata", "badMetadata", "file",
                              "names", "OK", "content", "part", "UPLOAD_COMPLETE", "rest"}
ServerTexts == {"OK", "USER_EXISTS", "INVALID_USERNAME_REGEX", "INVALID_PASSWORD_REGEX",
                "LOGIN_SUCCESS", "LOGIN_FAIL", "USER_NOT_FOUND", "WRONG_PASSWORD",
                "SUCCESS", "ERROR", "size", "0", "listing", "data", "part", "rest"}

\* Texts whose bytes are the users' own: one of them may spell a command or an answer.
OwnTexts   == {"name", "password", "file", "content", "part", "rest"}
OwnReplies == {"listing", "data", "part", "rest"}

SlipKinds == {
    "refused",   \* the client announces a registration, then refuses the name or the password
    "missing",   \* the client has no file to upload, sends "error" and reads no reply
    "silent",    \* the server returns from a command without a word
    "aborted",   \* one side leaves a transfer that the other goes on with
    "longList"}  \* a listing does not fit the one read of the client

ASSUME ConnectionAssumption ==
    /\ Slips \subseteq SlipKinds
    /\ MaxUnread \in Nat /\ MaxAfter \in Nat
    /\ None \notin Commands \cup ServerTexts

VARIABLES
    cpc, cop,            \* the client: what it waits for, and the command it is in
    spc, sop, arg,       \* the handler: what it reads next, its command, what it has read of it
    isLoggedin,
    held,                \* another session of the user holds the mutex of the folder
    toServer, toClient,  \* records written and not read
    up,                  \* the connection is there
    slip,                \* history: whether anybody has slipped
    after                \* history: the commands chosen, or found in a text, since

client  == <<cpc, cop>>
server  == <<spc, sop, arg, isLoggedin>>
streams == <<toServer, toClient>>
vars    == <<client, server, held, streams, up, slip, after>>

AtMenu  == {"menu", "done", "aborted"}
AtReply == {"account", "status", "listing", "uploadAck", "size", "data", "result"}
AtRead  == {"option", "name", "password", "metadata", "content", "marker",
            "filename", "ack", "request"}
InMutex == {"metadata", "content", "marker", "request"}

Init ==
    /\ cpc = "menu" /\ cop = None
    /\ spc = "option" /\ sop = None /\ arg = None /\ isLoggedin = FALSE
    /\ held = FALSE
    /\ toServer = <<>> /\ toClient = <<>>
    /\ up = TRUE
    /\ slip = "none" /\ after = 0

Slip(k) == (k \in Slips \/ slip # "none") /\ slip' = "slipped"
-----------------------------------------------------------------------------
(* The streams *)

ClientSends(texts) ==
    /\ up /\ Len(toServer) + Len(texts) <= MaxUnread
    /\ toServer' = toServer \o texts

ServerSends(texts) ==
    /\ Len(toClient) + Len(texts) <= MaxUnread
    /\ toClient' = toClient \o texts

\* What a read leaves of a stream whose first record does not, or need not, fit.
Cut(stream)    == {<<"rest">> \o Tail(stream)}
MayCut(stream) == {Tail(stream)} \cup Cut(stream)

\* SSL_read into 1023 bytes or more: every reply fits, a piece of a file or a list need not.
ClientReads(t) ==
    /\ toClient # <<>> /\ t = Head(toClient)
    /\ toClient' \in IF t \in OwnReplies THEN MayCut(toClient)
                     ELSE {Tail(toClient)}

\* SSL_read into the two bytes of ackBuffer in uploadFile.
ClientReadsTwo(t) ==
    /\ toClient # <<>> /\ t = Head(toClient)
    /\ toClient' \in IF t \in {"OK", "0"} THEN {Tail(toClient)}
                     ELSE IF t \in {"size"} \cup OwnReplies THEN MayCut(toClient) ELSE Cut(toClient)

\* SSL_read into a buffer of the server: every text fits, a piece of a file need not.
ServerReads(t) ==
    /\ toServer # <<>> /\ t = Head(toServer)
    /\ toServer' \in IF t \in {"content", "part", "rest"} THEN MayCut(toServer)
                     ELSE {Tail(toServer)}

\* SSL_read of two bytes in downloadFile.
ServerReadsTwo(t) ==
    /\ toServer # <<>> /\ t = Head(toServer)
    /\ toServer' \in IF t \in {"OK", "ls"} THEN {Tail(toServer)}
                     ELSE IF t \in {"name", "file", "content", "part", "rest"}
                     THEN MayCut(toServer) ELSE Cut(toServer)
-----------------------------------------------------------------------------
(* The client: serverHandler and the functions it calls *)

\* The user chooses a command.
Choose(o, texts, place) ==
    /\ cpc = "menu"
    /\ ClientSends(texts)
    /\ cpc' = place /\ cop' = o
    /\ UNCHANGED <<server, toClient, up, slip>>

\* Mutant: the answer to a registration is not read.
RegisterAndGo == Choose("register", <<"register", "name", "password">>, "menu")

Register == Choose("register", <<"register", "name", "password">>, "account")
Login    == Choose("login", <<"login", "name", "password">>, "account")

\* listFiles, uploadFile, downloadFile, renameFile, deleteFile, up to checkLoggedIn.
FileCommand == \E o \in FileCommands : Choose(o, <<o>>, "status")

\* registerUser returns after the request, since a regex refuses what the user typed.
RefuseRegistration ==
    /\ cpc = "menu"
    /\ ClientSends(<<"register">>)
    /\ Slip("refused")
    /\ UNCHANGED <<client, server, toClient, up>>

\* uploadFile cannot open the file.
MissingFile ==
    /\ cpc = "menu"
    /\ ClientSends(<<"error">>)
    /\ Slip("missing")
    /\ UNCHANGED <<client, server, toClient, up>>

Exit ==
    /\ cpc = "menu"
    /\ cpc' = "done"
    /\ UNCHANGED <<cop, server, streams, up, slip>>

Wait(place) == cpc' = place /\ UNCHANGED <<cop, slip>>
BackToMenu  == cpc' = "menu" /\ cop' = None

\* What checkLoggedIn takes for a yes: what is left of a file may say it too.
SaysLoggedIn == {"LOGIN_SUCCESS", "rest"}

\* The reply that ends a registration or a login, a rename or a delete.
LastReply ==
    /\ cpc \in {"account", "result"}
    /\ \E t \in ServerTexts : ClientReads(t)
    /\ BackToMenu
    /\ UNCHANGED <<server, toServer, up, slip>>

\* What each command on files goes on with.  A file to upload may have a name or
\* a size that the server refuses, or no size at all.
GoOn ==
    CASE cop = "ls"       -> Wait("listing") /\ UNCHANGED toServer
      [] cop = "upload"   ->
            \/ /\ \/ ClientSends(<<"metadata">>)
                  \/ ("silent" \in Slips \/ slip # "none") /\ ClientSends(<<"badMetadata">>)
               /\ Wait("uploadAck")
            \/ Slip("aborted") /\ BackToMenu /\ UNCHANGED toServer
      [] cop = "download" -> ClientSends(<<"file">>) /\ Wait("size")
      [] cop = "rename"   -> ClientSends(<<"names">>) /\ Wait("result")
      [] cop = "delete"   -> ClientSends(<<"file">>) /\ Wait("result")

\* checkLoggedIn, and what its caller does when it says yes.
CheckLoggedIn ==
    /\ cpc = "status"
    /\ \E t \in ServerTexts :
        /\ ClientReads(t)
        /\ \/ t # "LOGIN_SUCCESS" /\ BackToMenu /\ UNCHANGED <<toServer, slip>>
           \/ t \in SaysLoggedIn /\ GoOn
    /\ UNCHANGED <<server, up>>

\* listFiles: one read, whatever the length of the list.
ReadListing ==
    /\ cpc = "listing"
    /\ toClient # <<>>
    /\ toClient' \in IF Head(toClient) \in {"rest", "data", "part"} THEN MayCut(toClient)
                     ELSE {Tail(toClient)}
    /\ BackToMenu
    /\ UNCHANGED <<server, toServer, up, slip>>

\* uploadFile: the content and the marker after an OK.  A chunk that cannot be
\* read or sent ends the command without them.
UploadAck ==
    /\ cpc = "uploadAck"
    /\ \E t \in ServerTexts :
        /\ ClientReadsTwo(t)
        /\ \/ /\ t \in {"OK"} \cup OwnReplies
              /\ \/ ClientSends(<<"content", "UPLOAD_COMPLETE">>) /\ UNCHANGED slip
                 \/ Slip("aborted") /\ (ClientSends(<<"part">>) \/ UNCHANGED toServer)
           \/ t # "OK" /\ UNCHANGED <<toServer, slip>>
    /\ BackToMenu
    /\ UNCHANGED <<server, up>>

\* downloadFile, the size: an error ends it, OK is sent for a number, and what is
\* neither ends the program, since nobody catches the exception of stoll.
ReadSize ==
    /\ cpc = "size"
    /\ \E t \in ServerTexts :
        /\ ClientReads(t)
        /\ \/ t \in {"ERROR"} \cup OwnReplies /\ BackToMenu /\ UNCHANGED <<toServer, slip>>
           \/ t = "0" /\ ClientSends(<<"OK">>) /\ BackToMenu /\ UNCHANGED slip
           \/ t \in {"size"} \cup OwnReplies /\ ClientSends(<<"OK">>) /\ Wait("data")
           \/ t = "size"   \* the file cannot be created
                /\ ClientSends(<<"OK">>) /\ BackToMenu /\ Slip("aborted")
           \/ t \notin {"ERROR", "size", "0"}
                /\ cpc' = "aborted" /\ cop' = None /\ UNCHANGED <<toServer, slip>>
    /\ UNCHANGED <<server, up>>

\* downloadFile, the content.  Part of it leaves the client waiting; what does
\* not decompress, or cannot be written, ends the loop.
ReadData ==
    /\ cpc = "data"
    /\ toClient # <<>>
    /\ \/ Head(toClient) = "data" /\ toClient' = Tail(toClient) /\ BackToMenu /\ UNCHANGED slip
       \/ Head(toClient) = "part" /\ toClient' = Tail(toClient) /\ UNCHANGED <<client, slip>>
       \/ Head(toClient) \in {"data", "part"}
            /\ toClient' \in MayCut(toClient) /\ BackToMenu /\ Slip("aborted")
       \/ Head(toClient) \notin {"data", "part"}
            /\ toClient' \in MayCut(toClient) /\ BackToMenu /\ UNCHANGED slip
    /\ UNCHANGED <<server, toServer, up>>

ClientStep == \/ LastReply \/ CheckLoggedIn \/ ReadListing \/ UploadAck \/ ReadSize \/ ReadData
-----------------------------------------------------------------------------
(* The server: handler and the functions it calls *)

ReadNext(place) == spc' = place /\ UNCHANGED <<sop, arg, isLoggedin>>
Return          == spc' = "option" /\ sop' = None /\ arg' = None /\ UNCHANGED isLoggedin

\* After LOGIN_SUCCESS: listFiles sends the list, downloadFile reads on, and those
\* that change the folder come to its lock_guard first.  A long list takes several
\* records, or more than the 4095 bytes of the client's read.
LoggedInCommand(o) ==
    \/ /\ o = "ls"
       /\ \/ ServerSends(<<"LOGIN_SUCCESS", "listing">>) /\ UNCHANGED slip
          \/ ServerSends(<<"LOGIN_SUCCESS", "listing", "rest">>) /\ Slip("longList")
       /\ Return
    \/ /\ o # "ls"
       /\ ServerSends(<<"LOGIN_SUCCESS">>)
       /\ spc' = IF o = "download" THEN "filename" ELSE "lock"
       /\ sop' = o
       /\ UNCHANGED <<arg, isLoggedin, slip>>

\* The lock_guard of uploadFile, renameFile and deleteFile.
TakeLock ==
    /\ spc = "lock"
    /\ ~held
    /\ ReadNext(IF sop = "upload" THEN "metadata" ELSE "request")
    /\ UNCHANGED <<client, streams, up, slip>>

\* handler() obeys a command; sendLoggedInStatus in those on files.
Obey(o) ==
    /\ spc = "option"
    /\ \/ o \in {"register", "login"} /\ spc' = "name" /\ sop' = o
            /\ UNCHANGED <<arg, isLoggedin, toClient, slip>>
       \/ o \in FileCommands /\ isLoggedin /\ LoggedInCommand(o)
       \/ o \in FileCommands /\ ~isLoggedin /\ ServerSends(<<"LOGIN_FAIL">>)
            /\ UNCHANGED <<server, slip>>
    /\ UNCHANGED <<client, up>>

\* handler() reads the next command.  A text that begins with a NUL is dropped,
\* any other that is no command gets an error.
ReadOption ==
    /\ spc = "option"
    /\ \E t \in ClientTexts :
        /\ ServerReads(t)
        /\ \/ Obey(t)
           \/ /\ t \notin Commands
              /\ ServerSends(<<"ERROR">>) \/ (t \in {"content", "part", "rest"} /\ UNCHANGED toClient)
              /\ UNCHANGED <<client, server, up, slip>>

\* handler() obeys a name, a password or a piece of a file that spells a command.
ObeyOwnText ==
    /\ spc = "option"
    /\ toServer # <<>> /\ Head(toServer) \in OwnTexts /\ toServer' = Tail(toServer)
    /\ \E o \in Commands : Obey(o)

ReadName ==
    /\ spc = "name"
    /\ \E t \in ClientTexts : ServerReads(t) /\ arg' = t
    /\ spc' = "password"
    /\ UNCHANGED <<client, sop, isLoggedin, toClient, up, slip>>

\* The two regexes are those of the client: they accept what the client let
\* through, and any other text or not.
AccountAnswers(name, password) ==
    IF sop = "login" THEN {"LOGIN_SUCCESS", "USER_NOT_FOUND", "WRONG_PASSWORD"}
    ELSE {"OK", "USER_EXISTS"}
         \cup (IF name = "name" /\ password = "password" THEN {}
               ELSE {"INVALID_USERNAME_REGEX", "INVALID_PASSWORD_REGEX"})

\* Mutant: the answer to a login is sent, but the member is not set.
ReadPasswordLocally ==
    /\ spc = "password"
    /\ \E t \in ClientTexts : ServerReads(t) /\ \E a \in AccountAnswers(arg, t) : ServerSends(<<a>>)
    /\ Return
    /\ UNCHANGED <<client, up, slip>>

\* registerUser and loginUser after their second read: an answer, or none when
\* the INSERT or mkdir fails.
ReadPassword ==
    /\ spc = "password"
    /\ \E t \in ClientTexts :
        /\ ServerReads(t)
        /\ \/ \E a \in AccountAnswers(arg, t) :
                /\ ServerSends(<<a>>)
                /\ isLoggedin' = (isLoggedin \/ a = "LOGIN_SUCCESS")
                /\ UNCHANGED slip
           \/ Slip("silent") /\ UNCHANGED <<toClient, isLoggedin>>
    /\ spc' = "option" /\ sop' = None /\ arg' = None
    /\ UNCHANGED <<client, up>>

\* Mutant: the metadata is refused with a word that no client knows.
ReadMetadataNack ==
    /\ spc = "metadata"
    /\ \E t \in ClientTexts :
        /\ ServerReads(t)
        /\ \/ t = "metadata" /\ ServerSends(<<"OK">>) /\ ReadNext("content")
           \/ t # "metadata" /\ ServerSends(<<"NACK">>) /\ Return
    /\ UNCHANGED <<client, up, slip>>

\* uploadFile: OK, and the content is next unless gzopen fails; or, without a
\* word, back to the loop.
ReadMetadata ==
    /\ spc = "metadata"
    /\ \E t \in ClientTexts :
        /\ ServerReads(t)
        /\ \/ t \in {"metadata", "names"} \cup OwnTexts /\ ServerSends(<<"OK">>)
                /\ \/ ReadNext("content") /\ UNCHANGED slip
                   \/ Return /\ Slip("aborted")
           \/ t # "metadata" /\ Return /\ Slip("silent") /\ UNCHANGED toClient
    /\ UNCHANGED <<client, up>>

\* Mutant: the last read of the content asks for a whole buffer and gets the marker too.
ReadContentAndMore ==
    /\ spc = "content"
    /\ toServer # <<>>
    /\ Head(toServer) = "content"
    /\ \/ toServer' = Tail(toServer) /\ ReadNext("marker")
       \/ Len(toServer) > 1 /\ toServer' = Tail(Tail(toServer)) /\ ReadNext("marker")
    /\ UNCHANGED <<client, toClient, up, slip>>

\* The chunks up to filesize.  Whatever is read counts as content; gzwrite may fail.
ReadContent ==
    /\ spc = "content"
    /\ toServer # <<>>
    /\ \/ Head(toServer) = "content" /\ toServer' = Tail(toServer)
            /\ ReadNext("marker") /\ UNCHANGED slip
       \/ Head(toServer) # "content" /\ toServer' \in MayCut(toServer)
            /\ (ReadNext("content") \/ ReadNext("marker")) /\ UNCHANGED slip
       \/ toServer' \in MayCut(toServer) /\ Return /\ Slip("aborted")
    /\ UNCHANGED <<client, toClient, up>>

ReadMarker ==
    /\ spc = "marker"
    /\ \E t \in ClientTexts : ServerReads(t)
    /\ Return
    /\ UNCHANGED <<client, toClient, up, slip>>

\* Mutant: a file that is not there is not reported.
ReadFilenameSilently ==
    /\ spc = "filename"
    /\ \E t \in ClientTexts : ServerReads(t)
    /\ \/ \E size \in {"size", "0"} :
            /\ ServerSends(<<size>>)
            /\ spc' = "ack" /\ arg' = size
            /\ UNCHANGED <<sop, isLoggedin>>
       \/ Return /\ UNCHANGED toClient
    /\ UNCHANGED <<client, up, slip>>

\* downloadFile: the size, "0" for a file that gzopen has just truncated, or an
\* error; nothing if lseek fails.
ReadFilename ==
    /\ spc = "filename"
    /\ \E t \in ClientTexts : ServerReads(t)
    /\ \/ \E size \in {"size", "0"} :
            /\ ServerSends(<<size>>)
            /\ spc' = "ack" /\ arg' = size
            /\ UNCHANGED <<sop, isLoggedin, slip>>
       \/ ServerSends(<<"ERROR">>) /\ Return /\ UNCHANGED slip
       \/ Return /\ Slip("silent") /\ UNCHANGED toClient
    /\ UNCHANGED <<client, up>>

\* The acknowledgement, and the content.  A file that has become shorter than
\* the size announced ends it early.
ReadAck ==
    /\ spc = "ack"
    /\ \E t \in ClientTexts :
        /\ ServerReadsTwo(t)
        /\ \/ t \in {"OK"} \cup OwnTexts /\ arg = "size"
                /\ \/ ServerSends(<<"data">>) /\ UNCHANGED slip
                   \/ ServerSends(<<"part">>) /\ Slip("aborted")
           \/ (t # "OK" \/ arg = "0") /\ UNCHANGED <<toClient, slip>>
    /\ Return
    /\ UNCHANGED <<client, up>>

\* renameFile and deleteFile answer whatever they read.
ReadRequest ==
    /\ spc = "request"
    /\ \E t \in ClientTexts : ServerReads(t)
    /\ \E a \in {"SUCCESS", "ERROR"} : ServerSends(<<a>>)
    /\ Return
    /\ UNCHANGED <<client, up, slip>>

ServerStep == \/ ReadOption \/ ReadName \/ ReadPassword \/ ReadMetadata \/ ReadContent
              \/ ReadMarker \/ ReadFilename \/ ReadAck \/ ReadRequest

\* Another session of the user takes or leaves the mutex.  It may keep it for as
\* long as its own client says nothing.
Others ==
    /\ held' = ~held
    /\ held \/ (isLoggedin /\ spc \notin InMutex)
    /\ UNCHANGED <<client, server, streams, up, slip, after>>
-----------------------------------------------------------------------------
(* The end of a connection *)

\* The connection breaks: what is under way is lost.
Break ==
    /\ up
    /\ up' = FALSE
    /\ toServer' = <<>> /\ toClient' = <<>>
    /\ UNCHANGED <<client, server, slip>>

\* SSL_read fails, in the command and then in the loop: the handler ends.
ServerEnds ==
    /\ spc \notin {"ended", "lock"}
    /\ toServer = <<>>
    /\ ~up \/ cpc \in {"done", "aborted"}
    /\ spc' = "ended" /\ sop' = None /\ arg' = None /\ isLoggedin' = FALSE
    /\ UNCHANGED <<client, streams, up, slip>>


\* A read of the client fails: the command ends.
ClientReadFails ==
    /\ ~up
    /\ cpc \in AtReply
    /\ BackToMenu
    /\ UNCHANGED <<server, streams, up, slip>>

\* The next command is written to a connection that is gone: SIGPIPE.
ClientKilled ==
    /\ ~up
    /\ cpc = "menu"
    /\ cpc' = "aborted"
    /\ UNCHANGED <<cop, server, streams, up, slip>>

UserStep == Register \/ Login \/ FileCommand \/ RefuseRegistration \/ MissingFile \/ Exit

CountAfter == IF slip = "none" THEN UNCHANGED after
              ELSE after < MaxAfter /\ after' = after + 1

ClientGoesOn == (ClientStep \/ ClientReadFails) /\ UNCHANGED <<held, after>>
ServerGoesOn == (ServerStep \/ TakeLock \/ ServerEnds) /\ UNCHANGED <<held, after>>

Next == \/ UserStep /\ CountAfter /\ UNCHANGED held
        \/ ClientGoesOn \/ ServerGoesOn
        \/ ObeyOwnText /\ CountAfter /\ UNCHANGED held
        \/ (Break \/ ClientKilled) /\ UNCHANGED <<held, after>>
        \/ Others

Spec == Init /\ [][Next]_vars

\* Both programs run, and the user answers the prompts of a command; nothing
\* makes the user choose one.
Fairness == WF_vars(ClientGoesOn) /\ WF_vars(ServerGoesOn)

FairSpec == Spec /\ Fairness
-----------------------------------------------------------------------------
(* Properties *)

TypeOK ==
    /\ cpc \in AtMenu \cup AtReply
    /\ cop \in Commands \cup {None}
    /\ spc \in AtRead \cup {"lock", "ended"}
    /\ sop \in Commands \cup {None}
    /\ arg \in ClientTexts \cup {"size", "0", None}
    /\ isLoggedin \in BOOLEAN /\ held \in BOOLEAN
    /\ toServer \in Seq(ClientTexts)
    /\ toClient \in Seq(ServerTexts)
    /\ up \in BOOLEAN
    /\ slip \in {"none", "slipped"}
    /\ after \in 0 .. MaxAfter

\* What each read of the handler, and each read of the client, is written for.
Awaited ==
    CASE spc = "option"   -> Commands
      [] spc = "name"     -> {"name"}
      [] spc = "password" -> {"password"}
      [] spc = "lock"     -> IF sop = "upload" THEN {"metadata", "badMetadata"}
                             ELSE IF sop = "rename" THEN {"names"} ELSE {"file"}
      [] spc = "metadata" -> {"metadata", "badMetadata"}
      [] spc = "content"  -> {"content"}
      [] spc = "marker"   -> {"UPLOAD_COMPLETE"}
      [] spc = "filename" -> {"file"}
      [] spc = "ack"      -> {"OK"}
      [] spc = "request"  -> IF sop = "rename" THEN {"names"} ELSE {"file"}
      [] spc = "ended"    -> {}

Expected ==
    CASE cpc \in AtMenu    -> {}
      [] cpc = "account"   -> IF cop = "login"
                              THEN {"LOGIN_SUCCESS", "USER_NOT_FOUND", "WRONG_PASSWORD"}
                              ELSE {"OK", "USER_EXISTS"}
      [] cpc = "status"    -> {"LOGIN_SUCCESS", "LOGIN_FAIL"}
      [] cpc = "listing"   -> {"listing"}
      [] cpc = "uploadAck" -> {"OK"}
      [] cpc = "size"      -> {"size", "0", "ERROR"}
      [] cpc = "data"      -> {"data"}
      [] cpc = "result"    -> {"SUCCESS", "ERROR"}

\* The commands that end for the client before they do for the server.
Trailing == (sop = "upload" /\ spc \in {"content", "marker"}) \/ (spc = "ack" /\ arg = "0")

\* Until somebody slips, whatever comes next in a stream was written for the
\* read that will get it, and the handler is in the client's command unless it
\* has the end of an earlier one to read: the five slips are the only ways in
\* which the two programs lose each other.
InStep ==
    slip = "none" =>
        /\ toServer # <<>> => Head(toServer) \in Awaited
        /\ toClient # <<>> => Head(toClient) \in Expected
        /\ sop # None /\ up => sop = cop \/ Trailing

\* Both sides wait for the other one and nothing is under way.
Stuck ==
    /\ up /\ toServer = <<>> /\ toClient = <<>>
    /\ cpc \in AtReply
    /\ spc \in AtRead

\* Until somebody slips the two never wait for each other, and the client is
\* not ended by a text it cannot parse.
StuckOnlyBySlip ==
    slip = "none" => ~Stuck /\ (cpc = "aborted" => ~up)

\* However often they have lost each other, the client never reads that it is
\* logged in on a connection that is not: no answer left over from an earlier
\* command, and no piece of a file or a list that may spell that answer, is ever
\* under way to a client whose login the server has not accepted.
LoginIsReal ==
    \A i \in DOMAIN toClient : toClient[i] \in SaysLoggedIn => isLoggedin \/ spc = "ended"

\* A connection is a Dialogue until somebody slips or it breaks: each command
\* gets one answer, an answer to that command, after it is asked and before
\* the next is.
Whole == up /\ slip = "none"

Answers == [
    register |-> {"OK", "USER_EXISTS"},
    login    |-> {"LOGIN_SUCCESS", "USER_NOT_FOUND", "WRONG_PASSWORD"},
    ls       |-> {"LOGIN_FAIL", "listing"},
    upload   |-> {"LOGIN_FAIL", "OK"},
    download |-> {"LOGIN_FAIL", "ERROR", "0", "data"},
    rename   |-> {"LOGIN_FAIL", "SUCCESS", "ERROR"},
    delete   |-> {"LOGIN_FAIL", "SUCCESS", "ERROR"}]

\* The answer to a command among the texts on their way to the client.
AnswerIn(o, texts) ==
    IF o # None /\ texts # <<>> /\ Last(texts) \in Answers[o] THEN Last(texts) ELSE None

Talk == INSTANCE Dialogue WITH
    Command <- Commands,
    asked   <- IF Whole THEN cop ELSE None,
    answer  <- IF Whole THEN AnswerIn(cop, toClient) ELSE None,
    over    <- ~Whole

IsDialogue == Talk!Spec

\* A command comes to an end on the client, unless somebody has slipped or the
\* handler comes again and again to a mutex that another session of the user
\* holds: a lock_guard has no time limit, and that session may wait for its own
\* client inside it (server handlers.cpp:303, 573, 650).
KeptOut     == spc = "lock" /\ held

\* The two programs never wait for each other (client handlers.cpp:79 "send
\* register req" is followed by nothing when a regex refuses the name, while
\* server handlers.cpp:78 goes on to "recv username").  The code breaks it.
NeverStuck == ~Stuck
=============================================================================
