------------------------------- MODULE Server -------------------------------
(***************************************************************************)
(* The handlers of the file server and everything they share.              *)
(*                                                                         *)
(* Every accepted connection is a session: one clientHandler object run by *)
(* one pool thread.  The sessions meet in the user database, in the        *)
(* directories under store/, and in clientHandler::folderLocks, a map from *)
(* a user name to a mutex that the first lookup of the name creates.  One  *)
(* action is one stretch of a handler between two points where another     *)
(* session can get in: a blocking read, a database query, a system call on *)
(* the store, a lookup in folderLocks, the acquisition of a mutex.         *)
(*                                                                         *)
(* The peer of a session is any client: a read returns any text of the     *)
(* small sets below, and the connection can end whenever the peer likes.   *)
(***************************************************************************)
EXTENDS FiniteSets

CONSTANTS
    Session,        \* connections that can be served at a time
    Name,           \* texts received as a user name
    ValidName,      \* those that usernameRegex accepts
    Password,       \* texts received as a password
    ValidPassword,  \* those that passwordRegex accepts
    GzName,         \* user names ending in .gz: remove() and rename() reach their folders
    Folder,         \* directories a name of rename or delete can lead to, the users' among them
    File,           \* file names, without the directory and the .gz
    Option,         \* the commands the peers send
    Faults,         \* may SQLite, mkdir, gzopen and gzwrite fail?
    Crashes,        \* may the process die and be started again?
    None

FolderOptions  == {"upload", "rename", "delete"}
FileOptions    == FolderOptions \cup {"ls", "download"}
AccountOptions == {"register", "login"}

ASSUME ServerAssumption ==
    /\ ValidName \subseteq Name /\ ValidPassword \subseteq Password
    /\ GzName \subseteq Name /\ Name \subseteq Folder
    /\ Option \subseteq AccountOptions \cup FileOptions \cup {"other"}
    /\ Faults \in BOOLEAN /\ Crashes \in BOOLEAN
    /\ None \notin Session \cup Name \cup Password \cup AccountOptions \cup FileOptions
    /\ None \notin Name \X Session
    /\ None \notin Folder \X File

VARIABLES
    \* one per session
    pc,          \* where the handler of the session is
    conn,        \* the connection: "open", "gone", or "freed" by SSL_free
    op,          \* the command being served
    user, pass,  \* the locals of registerUser and loginUser
    isLoggedin, username, folderdir,    \* the members of clientHandler
    mtx,         \* the mutex folderLocks[username] evaluated to
    link,        \* the directory entry of the file being written, if it has one
    unanswered,  \* the last command, when it ended without the reply its peer awaits
    \* shared by all sessions
    users,       \* the table of the database: password hash by user name
    dirs,        \* the users' directories that exist
    store,       \* the files in them and in the other directories
    folderLocks, \* by name, which session's node a lookup finds
    owner,       \* by mutex, the session that holds it
    breached,    \* history: folders whose mutex no longer keeps sessions apart
    reached      \* history: folders changed from outside them during an upload

session == <<pc, conn, op, user, pass, isLoggedin, username, folderdir, mtx, link, unanswered>>
shared  == <<users, dirs, store, folderLocks, owner, breached, reached>>
vars    == <<session, shared>>

Mutex   == Name \X Session      \* a mutex is named by its key and its creator
Entry   == Folder \X File
Content == {"absent", "part", "whole", "mixed"}

AtAccount == {"username", "password", "insertRow", "getHash", "ensureDir", "mkdir"}
AtLookup  == {"find", "insertLock"}
InLock    == {"metadata", "content", "marker"}
AtRead    == {"username", "password", "downloadName", "downloadAck"} \cup InLock

PC == {"closed", "option", "list", "lock", "downloadSend"}
        \cup AtAccount \cup AtLookup \cup AtRead

Init ==
    /\ pc          = [s \in Session |-> "closed"]
    /\ conn        = [s \in Session |-> "gone"]
    /\ op          = [s \in Session |-> None]
    /\ user        = [s \in Session |-> None]
    /\ pass        = [s \in Session |-> None]
    /\ isLoggedin  = [s \in Session |-> FALSE]
    /\ username    = [s \in Session |-> None]
    /\ folderdir   = [s \in Session |-> None]
    /\ mtx         = [s \in Session |-> None]
    /\ link        = [s \in Session |-> None]
    /\ unanswered  = [s \in Session |-> None]
    /\ users       = [n \in Name |-> None]
    /\ dirs        = {}
    /\ store       = [d \in Folder |-> [f \in File |-> "absent"]]
    /\ folderLocks = [n \in Name |-> None]
    /\ owner       = [m \in Mutex |-> None]
    /\ breached    = {}
    /\ reached     = {}
-----------------------------------------------------------------------------
(* Connections *)

\* main: a handshake succeeded and a pool thread runs a new clientHandler.
Accept(s) ==
    /\ pc[s] = "closed"
    /\ pc' = [pc EXCEPT ![s] = "option"]
    /\ conn' = [conn EXCEPT ![s] = "open"]
    /\ UNCHANGED <<op, user, pass, isLoggedin, username, folderdir, mtx, link, unanswered, shared>>

\* The peer closes or resets the connection and nothing is left to read.  The
\* handler learns of it at a read or at the write of a list: a peer that goes
\* before is gone when the handler gets there.
Disconnect(s) ==
    /\ pc[s] \in AtRead \cup {"option", "list"}
    /\ conn[s] = "open"
    /\ conn' = [conn EXCEPT ![s] = "gone"]
    /\ UNCHANGED <<pc, op, user, pass, isLoggedin, username, folderdir, mtx, link, unanswered, shared>>

\* Mutant: the mutex is not unlocked on the way out.
ReturnLocked(s) ==
    /\ pc'    = [pc    EXCEPT ![s] = "option"]
    /\ op'    = [op    EXCEPT ![s] = None]
    /\ user'  = [user  EXCEPT ![s] = None]
    /\ pass'  = [pass  EXCEPT ![s] = None]
    /\ mtx'   = [mtx   EXCEPT ![s] = None]
    /\ owner' = owner

\* The handler of a command returns to the loop of handler(): its locals are
\* destroyed and its lock_guard unlocks the mutex it holds.
Return(s) ==
    /\ pc'    = [pc    EXCEPT ![s] = "option"]
    /\ op'    = [op    EXCEPT ![s] = None]
    /\ user'  = [user  EXCEPT ![s] = None]
    /\ pass'  = [pass  EXCEPT ![s] = None]
    /\ mtx'   = [mtx   EXCEPT ![s] = None]
    /\ owner' = [m \in Mutex |-> IF owner[m] = s THEN None ELSE owner[m]]

\* ... and the peer has been sent nothing it can take for the outcome.
ReturnSilently(s) ==
    /\ Return(s)
    /\ unanswered' = [unanswered EXCEPT ![s] = op[s]]

ReturnAnswered(s) ==
    /\ Return(s)
    /\ UNCHANGED unanswered

\* Mutant: uploadFile reads until the marker comes, whatever SSL_read returns.
ReadFailsBeforeMarker(s) ==
    /\ pc[s] \in AtRead \ {"marker"}
    /\ conn[s] # "open"
    /\ ReturnAnswered(s)
    /\ link' = [link EXCEPT ![s] = None]
    /\ UNCHANGED <<conn, isLoggedin, username, folderdir,
                   users, dirs, store, folderLocks, breached, reached>>

\* Mutant: uploadFile returns without gzclose.
ReadFailsUnclosed(s) ==
    /\ pc[s] \in AtRead
    /\ conn[s] # "open"
    /\ ReturnAnswered(s)
    /\ UNCHANGED <<conn, isLoggedin, username, folderdir, link,
                   users, dirs, store, folderLocks, breached, reached>>

\* SSL_read returns <= 0 in a handler, which closes its file, if it has one, and returns.
ReadFails(s) ==
    /\ pc[s] \in AtRead
    /\ conn[s] # "open"
    /\ ReturnAnswered(s)
    /\ link' = [link EXCEPT ![s] = None]
    /\ UNCHANGED <<conn, isLoggedin, username, folderdir,
                   users, dirs, store, folderLocks, breached, reached>>

\* SSL_read returns <= 0 in handler(): the loop ends and clientHandler with it.
HandlerEnds(s) ==
    /\ pc[s] = "option"
    /\ conn[s] # "open"
    /\ pc'         = [pc         EXCEPT ![s] = "closed"]
    /\ conn'       = [conn       EXCEPT ![s] = "gone"]
    /\ isLoggedin' = [isLoggedin EXCEPT ![s] = FALSE]
    /\ username'   = [username   EXCEPT ![s] = None]
    /\ folderdir'  = [folderdir  EXCEPT ![s] = None]
    /\ unanswered' = [unanswered EXCEPT ![s] = None]
    /\ UNCHANGED <<op, user, pass, mtx, link, shared>>
-----------------------------------------------------------------------------
(* handler(): the next command *)

Command(s, o) ==
    /\ pc[s] = "option"
    /\ conn[s] = "open"
    /\ o \in Option
    /\ unanswered' = [unanswered EXCEPT ![s] = None]
    /\ UNCHANGED <<conn, user, pass, isLoggedin, username, folderdir, mtx, link, shared>>

Enter(s, o, l) ==
    /\ pc' = [pc EXCEPT ![s] = l]
    /\ op' = [op EXCEPT ![s] = o]

AccountCommand(s) == \E o \in AccountOptions : Command(s, o) /\ Enter(s, o, "username")

\* sendLoggedInStatus says LOGIN_FAIL and the handler returns; an unknown
\* option is answered with an error.
RefusedCommand(s) ==
    /\ \E o \in FileOptions \cup {"other"} : Command(s, o) /\ (isLoggedin[s] => o = "other")
    /\ UNCHANGED <<pc, op>>

\* Mutant: listFiles does not return after LOGIN_FAIL.
ListCommandUnchecked(s) == Command(s, "ls") /\ Enter(s, "ls", "list")

ListCommand(s) == isLoggedin[s] /\ Command(s, "ls") /\ Enter(s, "ls", "list")

DownloadCommand(s) ==
    isLoggedin[s] /\ Command(s, "download") /\ Enter(s, "download", "downloadName")

\* Mutant: deleteFile takes no mutex.
FolderCommandUnlockedDelete(s) ==
    /\ isLoggedin[s]
    /\ \E o \in FolderOptions :
        Command(s, o) /\ Enter(s, o, IF o = "delete" THEN "metadata" ELSE "find")

FolderCommand(s) ==
    /\ isLoggedin[s]
    /\ \E o \in FolderOptions : Command(s, o) /\ Enter(s, o, "find")
-----------------------------------------------------------------------------
(* registerUser and loginUser *)

RecvUsername(s) ==
    /\ pc[s] = "username"
    /\ conn[s] = "open"
    /\ \E n \in Name : user' = [user EXCEPT ![s] = n]
    /\ pc' = [pc EXCEPT ![s] = "password"]
    /\ UNCHANGED <<conn, op, pass, isLoggedin, username, folderdir, mtx, link, unanswered, shared>>

\* Does the query of Database::userExists find a row?  A query that fails counts as no.
UserExists(n) == IF users[n] = None THEN {FALSE}
                 ELSE IF Faults THEN BOOLEAN ELSE {TRUE}

\* Mutant: the server leaves the two regexes to the client.
CheckRegistrationOnly(s) ==
    /\ pc[s] = "password" /\ op[s] = "register"
    /\ conn[s] = "open"
    /\ \E p \in Password, exists \in UserExists(user[s]) :
        IF ~exists
        THEN /\ pass' = [pass EXCEPT ![s] = p]
             /\ pc' = [pc EXCEPT ![s] = "insertRow"]
             /\ UNCHANGED <<op, user, mtx, owner, unanswered>>
        ELSE ReturnAnswered(s)
    /\ UNCHANGED <<conn, link, isLoggedin, username, folderdir, users, dirs, store, folderLocks, breached, reached>>

\* registerUser once the password is read: the two regexes, hashPassword, userExists.
CheckRegistration(s) ==
    /\ pc[s] = "password" /\ op[s] = "register"
    /\ conn[s] = "open"
    /\ \E p \in Password, exists \in UserExists(user[s]) :
        IF user[s] \in ValidName /\ p \in ValidPassword /\ ~exists
        THEN /\ pass' = [pass EXCEPT ![s] = p]
             /\ pc' = [pc EXCEPT ![s] = "insertRow"]
             /\ UNCHANGED <<op, user, mtx, owner, unanswered>>
        ELSE ReturnAnswered(s)
    /\ UNCHANGED <<conn, link, isLoggedin, username, folderdir, users, dirs, store, folderLocks, breached, reached>>

\* Mutant: INSERT OR REPLACE, or a table without the UNIQUE of its column.
ReplaceRow(s) ==
    /\ pc[s] = "insertRow"
    /\ users' = [users EXCEPT ![user[s]] = pass[s]]
    /\ folderdir' = [folderdir EXCEPT ![s] = user[s]]
    /\ pc' = [pc EXCEPT ![s] = "ensureDir"]
    /\ UNCHANGED <<op, user, pass, mtx, owner, unanswered, conn, link, isLoggedin, username,
                   dirs, store, folderLocks, breached, reached>>

\* Database::registerUser: the column username is UNIQUE, so the INSERT of a
\* name that has a row fails.
InsertRow(s) ==
    /\ pc[s] = "insertRow"
    /\ \/ /\ users[user[s]] = None
          /\ users' = [users EXCEPT ![user[s]] = pass[s]]
          /\ folderdir' = [folderdir EXCEPT ![s] = user[s]]
          /\ pc' = [pc EXCEPT ![s] = "ensureDir"]
          /\ UNCHANGED <<op, user, pass, mtx, owner, unanswered>>
       \/ /\ users[user[s]] # None \/ Faults
          /\ ReturnSilently(s)
          /\ UNCHANGED <<users, folderdir>>
    /\ UNCHANGED <<conn, link, isLoggedin, username, dirs, store, folderLocks, breached, reached>>

\* loginUser once the password is read: userExists.
LookupUser(s) ==
    /\ pc[s] = "password" /\ op[s] = "login"
    /\ conn[s] = "open"
    /\ \E p \in Password, exists \in UserExists(user[s]) :
        IF exists
        THEN /\ pass' = [pass EXCEPT ![s] = p]
             /\ pc' = [pc EXCEPT ![s] = "getHash"]
             /\ UNCHANGED <<op, user, mtx, owner, unanswered>>
        ELSE ReturnAnswered(s)
    /\ UNCHANGED <<conn, link, isLoggedin, username, folderdir, users, dirs, store, folderLocks, breached, reached>>

\* Mutant: a hash that decodes to nothing verifies any password.
VerifyNothing(s) ==
    /\ pc[s] = "getHash"
    /\ folderdir' = [folderdir EXCEPT ![s] = user[s]]
    /\ pc' = [pc EXCEPT ![s] = "ensureDir"]
    /\ UNCHANGED <<op, user, pass, mtx, owner, unanswered, conn, link, isLoggedin, username,
                   users, dirs, store, folderLocks, breached, reached>>

\* loginUser: getHashedPassword (empty when the query fails) and verifyPasswords.
VerifyPassword(s) ==
    /\ pc[s] = "getHash"
    /\ \/ /\ users[user[s]] = pass[s]
          /\ folderdir' = [folderdir EXCEPT ![s] = user[s]]
          /\ pc' = [pc EXCEPT ![s] = "ensureDir"]
          /\ UNCHANGED <<op, user, pass, mtx, owner, unanswered>>
       \/ /\ users[user[s]] # pass[s] \/ Faults
          /\ ReturnAnswered(s)
          /\ UNCHANGED folderdir
    /\ UNCHANGED <<conn, link, isLoggedin, username, users, dirs, store, folderLocks, breached, reached>>

\* Mutant: the locals username and password are swapped.
AccountDoneSwapped(s) ==
    /\ IF op[s] = "login"
       THEN /\ isLoggedin' = [isLoggedin EXCEPT ![s] = TRUE]
            /\ username' = [username EXCEPT ![s] = pass[s]]
       ELSE UNCHANGED <<isLoggedin, username>>
    /\ ReturnAnswered(s)

\* The directory is there: registerUser sends OK, loginUser sets its members
\* and sends LOGIN_SUCCESS.
AccountDone(s) ==
    /\ IF op[s] = "login"
       THEN /\ isLoggedin' = [isLoggedin EXCEPT ![s] = TRUE]
            /\ username' = [username EXCEPT ![s] = user[s]]
       ELSE UNCHANGED <<isLoggedin, username>>
    /\ ReturnAnswered(s)

\* ensureDirectory: stat.
StatDirectory(s) ==
    /\ pc[s] = "ensureDir"
    /\ IF user[s] \in dirs
       THEN AccountDone(s)
       ELSE /\ pc' = [pc EXCEPT ![s] = "mkdir"]
            /\ UNCHANGED <<op, user, pass, isLoggedin, username, mtx, owner, unanswered>>
    /\ UNCHANGED <<conn, link, folderdir, users, dirs, store, folderLocks, breached, reached>>

\* Mutant: the result of ensureDirectory is not looked at.
MakeDirectoryUnchecked(s) ==
    /\ pc[s] = "mkdir"
    /\ \/ dirs' = dirs \cup {user[s]}
       \/ (user[s] \in dirs \/ Faults) /\ dirs' = dirs
    /\ AccountDone(s)
    /\ UNCHANGED <<conn, link, folderdir, users, store, folderLocks, breached, reached>>

\* ensureDirectory: mkdir, which fails with EEXIST when another session was faster.
MakeDirectory(s) ==
    /\ pc[s] = "mkdir"
    /\ \/ /\ user[s] \notin dirs
          /\ dirs' = dirs \cup {user[s]}
          /\ AccountDone(s)
       \/ /\ user[s] \in dirs \/ Faults
          /\ ReturnSilently(s)
          /\ UNCHANGED <<dirs, isLoggedin, username>>
    /\ UNCHANGED <<conn, link, folderdir, users, store, folderLocks, breached, reached>>
-----------------------------------------------------------------------------
(* lock_guard lock(folderLocks[username]) in uploadFile, renameFile, deleteFile *)

Inserting == {t \in Session : pc[t] = "insertLock"}

\* Mutant: folderLocks is not static, so that every handler has a map of its own.
FindLockOfHandler(s) ==
    /\ pc[s] = "find"
    /\ IF folderLocks[username[s]] = s
       THEN /\ mtx' = [mtx EXCEPT ![s] = <<username[s], s>>]
            /\ pc' = [pc EXCEPT ![s] = "lock"]
       ELSE /\ pc' = [pc EXCEPT ![s] = "insertLock"]
            /\ UNCHANGED mtx
    /\ UNCHANGED <<conn, op, user, pass, isLoggedin, username, folderdir, link, unanswered,
                   users, dirs, store, folderLocks, owner, breached, reached>>

\* operator[] of the unordered_map: the node of the name, or a new one.  The
\* map is shared without a lock, so a lookup can come while another session is
\* inserting: it can miss a node that is there, because the table is growing,
\* and insert a second one.  When insertions overlap, their names are breached.
FindLock(s) ==
    /\ pc[s] = "find"
    /\ \/ /\ folderLocks[username[s]] # None
          /\ mtx' = [mtx EXCEPT ![s] = <<username[s], folderLocks[username[s]]>>]
          /\ pc' = [pc EXCEPT ![s] = "lock"]
          /\ UNCHANGED breached
       \/ /\ folderLocks[username[s]] = None \/ Inserting # {}
          /\ pc' = [pc EXCEPT ![s] = "insertLock"]
          /\ breached' = IF Inserting = {} THEN breached
                         ELSE breached \cup {username[t] : t \in Inserting \cup {s}}
          /\ UNCHANGED mtx
    /\ UNCHANGED <<conn, op, user, pass, isLoggedin, username, folderdir, link, unanswered,
                   users, dirs, store, folderLocks, owner, reached>>

\* The new node is put in front of its bucket, and the table grows when it is
\* full.  While another insertion is under way the links that the two write can
\* overwrite one another, and any nodes, old ones too, are lost to lookups.
InsertLock(s) ==
    /\ pc[s] = "insertLock"
    /\ \E lost \in SUBSET ({n \in Name : folderLocks[n] # None} \cup {username[s]}) :
        /\ lost # {} => Inserting # {s}
        /\ folderLocks' = [n \in Name |-> IF n \in lost THEN None
                                          ELSE IF n = username[s] THEN s ELSE folderLocks[n]]
        /\ breached' = breached \cup lost
    /\ mtx' = [mtx EXCEPT ![s] = <<username[s], s>>]
    /\ pc' = [pc EXCEPT ![s] = "lock"]
    /\ UNCHANGED <<conn, op, user, pass, isLoggedin, username, folderdir, link, unanswered,
                   users, dirs, store, owner, reached>>

\* Mutant: try_lock, and its result is not looked at.
TryLockFolder(s) ==
    /\ pc[s] = "lock"
    /\ owner' = [owner EXCEPT ![mtx[s]] = IF @ = None THEN s ELSE @]
    /\ pc' = [pc EXCEPT ![s] = "metadata"]
    /\ breached' = IF folderdir[s] = username[s] THEN breached
                   ELSE breached \cup {folderdir[s]}
    /\ UNCHANGED <<conn, op, user, pass, isLoggedin, username, folderdir, mtx, link, unanswered,
                   users, dirs, store, folderLocks, reached>>

\* The mutex is the one of username; the handler works in folderdir.  A folder
\* entered under the mutex of another name is breached.
LockFolder(s) ==
    /\ pc[s] = "lock"
    /\ owner[mtx[s]] = None
    /\ owner' = [owner EXCEPT ![mtx[s]] = s]
    /\ pc' = [pc EXCEPT ![s] = "metadata"]
    /\ breached' = IF folderdir[s] = username[s] THEN breached
                   ELSE breached \cup {folderdir[s]}
    /\ UNCHANGED <<conn, op, user, pass, isLoggedin, username, folderdir, mtx, link, unanswered,
                   users, dirs, store, folderLocks, reached>>
-----------------------------------------------------------------------------
(* uploadFile *)

Writers(e) == {t \in Session : link[t] = e}

\* Mutant: the lock_guard is in the scope of the metadata only.
UploadMetadataUnlocks(s) ==
    /\ pc[s] = "metadata" /\ op[s] = "upload"
    /\ conn[s] = "open"
    /\ \E f \in File :
        /\ folderdir[s] \in dirs
        /\ store' = [store EXCEPT ![folderdir[s]][f] =
                        IF Writers(<<folderdir[s], f>>) = {} THEN "part" ELSE "mixed"]
        /\ link' = [link EXCEPT ![s] = <<folderdir[s], f>>]
    /\ pc' = [pc EXCEPT ![s] = "content"]
    /\ owner' = [owner EXCEPT ![mtx[s]] = None]
    /\ UNCHANGED <<op, user, pass, mtx, unanswered, conn, isLoggedin, username, folderdir,
                   users, dirs, folderLocks, breached, reached>>

\* The metadata is read: refused without a word, or acknowledged and the
\* file opened, and truncated in place, by gzopen.
UploadMetadata(s) ==
    /\ pc[s] = "metadata" /\ op[s] = "upload"
    /\ conn[s] = "open"
    /\ \/ \E f \in File :
            /\ folderdir[s] \in dirs
            /\ store' = [store EXCEPT ![folderdir[s]][f] =
                            IF Writers(<<folderdir[s], f>>) = {} THEN "part" ELSE "mixed"]
            /\ link' = [link EXCEPT ![s] = <<folderdir[s], f>>]
            /\ pc' = [pc EXCEPT ![s] = "content"]
            /\ UNCHANGED <<op, user, pass, mtx, owner, unanswered>>
       \/ ReturnSilently(s) /\ UNCHANGED <<store, link>>    \* bad name, size or format
       \/ /\ folderdir[s] \notin dirs \/ Faults           \* gzopen fails after the OK
          /\ ReturnAnswered(s)
          /\ UNCHANGED <<store, link>>
    /\ UNCHANGED <<conn, isLoggedin, username, folderdir, users, dirs, folderLocks, breached, reached>>

\* The chunks up to filesize are read, written and the file closed, or gzwrite fails.
UploadContent(s) ==
    /\ pc[s] = "content"
    /\ conn[s] = "open"
    /\ \/ /\ store' = [d \in Folder |-> [f \in File |->
                          IF link[s] = <<d, f>> /\ store[d][f] = "part" THEN "whole"
                          ELSE store[d][f]]]
          /\ pc' = [pc EXCEPT ![s] = "marker"]
          /\ UNCHANGED <<op, user, pass, mtx, owner, unanswered>>
       \/ Faults /\ ReturnAnswered(s) /\ UNCHANGED store
    /\ link' = [link EXCEPT ![s] = None]
    /\ UNCHANGED <<conn, isLoggedin, username, folderdir, users, dirs, folderLocks, breached, reached>>

\* The end-of-transfer marker, or anything else: the handler returns either way.
UploadMarker(s) ==
    /\ pc[s] = "marker"
    /\ conn[s] = "open"
    /\ ReturnAnswered(s)
    /\ UNCHANGED <<conn, isLoggedin, username, folderdir, link, users, dirs, store, folderLocks, breached, reached>>
-----------------------------------------------------------------------------
(* renameFile, deleteFile: one read, one system call, one reply.  The names    *)
(* are put behind folderdir as they come, so they can lead to any directory.   *)

\* The directories that exist.
Directories == dirs \cup (Folder \ Name)

\* The folders of D, when the session changes one that is not its own while
\* there is an upload in one of them.
ReachedFrom(s, D) ==
    IF D = {folderdir[s]} \/ \A t \in Session : link[t] \notin D \X File THEN {} ELSE D

\* rename(): entry e becomes entry g and the file that g named is unlinked.  A
\* file that a session is writing stays the same file under its new name.
Rename(e, g) ==
    /\ store[e[1]][e[2]] # "absent"
    /\ g[1] \in Directories
    /\ store' = [d \in Folder |-> [f \in File |->
                    CASE g = <<d, f>> -> store[e[1]][e[2]]
                      [] e = <<d, f>> -> "absent"
                      [] OTHER        -> store[d][f]]]
    /\ link' = [t \in Session |-> CASE link[t] = g -> None
                                     [] link[t] = e -> g
                                     [] OTHER       -> link[t]]

\* rename() of a user's folder that has the name of a file, to a place where
\* there is no directory or an empty one.
RenameFolder(n, m) ==
    /\ n \in dirs
    /\ \A f \in File : store[m][f] = "absent"
    /\ dirs' = (dirs \ {n}) \cup {m}
    /\ store' = [store EXCEPT ![n] = store[m], ![m] = store[n]]
    /\ link' = [t \in Session |-> IF link[t] \in {n} \X File THEN <<m, link[t][2]>> ELSE link[t]]

\* The handler answers in every case: no ':' in the text, no such file, a
\* name renamed to itself, or a file, or a folder, renamed.
RenameRequest(s) ==
    /\ pc[s] = "metadata" /\ op[s] = "rename"
    /\ conn[s] = "open"
    /\ \/ /\ folderdir[s] \in dirs
          /\ \/ \E e, g \in Entry :
                   /\ e # g /\ Rename(e, g)
                   /\ reached' = reached \cup ReachedFrom(s, {e[1], g[1]})
                   /\ UNCHANGED dirs
             \/ \E n, m \in GzName :
                   /\ n # m /\ RenameFolder(n, m)
                   /\ reached' = reached \cup ReachedFrom(s, {n, m})
       \/ UNCHANGED <<dirs, store, link, reached>>
    /\ ReturnAnswered(s)
    /\ UNCHANGED <<conn, isLoggedin, username, folderdir, users, folderLocks, breached>>

\* remove(): the entry goes; a session that is writing the file goes on writing it.
Remove(e) ==
    /\ store[e[1]][e[2]] # "absent"
    /\ store' = [store EXCEPT ![e[1]][e[2]] = "absent"]
    /\ link' = [t \in Session |-> IF link[t] = e THEN None ELSE link[t]]

\* remove() of a user's folder that has the name of a file: it has to be empty.
RemoveFolder(n) ==
    /\ n \in dirs
    /\ \A f \in File : store[n][f] = "absent"
    /\ dirs' = dirs \ {n}

DeleteRequest(s) ==
    /\ pc[s] = "metadata" /\ op[s] = "delete"
    /\ conn[s] = "open"
    /\ \/ /\ folderdir[s] \in dirs
          /\ \/ \E e \in Entry : /\ Remove(e)
                                 /\ reached' = reached \cup ReachedFrom(s, {e[1]})
                                 /\ UNCHANGED dirs
             \/ \E n \in GzName : /\ RemoveFolder(n)
                                  /\ reached' = reached \cup ReachedFrom(s, {n})
                                  /\ UNCHANGED <<store, link>>
       \/ UNCHANGED <<dirs, store, link, reached>>
    /\ ReturnAnswered(s)
    /\ UNCHANGED <<conn, isLoggedin, username, folderdir, users, folderLocks, breached>>
-----------------------------------------------------------------------------
(* listFiles, downloadFile: no mutex is taken *)

\* A failed write of the list frees the SSL handle and returns to the loop
\* that goes on using it.
ListFolder(s) ==
    /\ pc[s] = "list"
    /\ \/ UNCHANGED conn
       \/ conn[s] = "gone" /\ conn' = [conn EXCEPT ![s] = "freed"]
    /\ ReturnAnswered(s)
    /\ UNCHANGED <<isLoggedin, username, folderdir, link, users, dirs, store, folderLocks, breached, reached>>

\* A file, of this folder or of any other place the name leads to, is opened
\* and its size sent, or the peer is told that there is none.
DownloadName(s) ==
    /\ pc[s] = "downloadName"
    /\ conn[s] = "open"
    /\ \/ /\ folderdir[s] \in dirs
          /\ pc' = [pc EXCEPT ![s] = "downloadAck"]
          /\ UNCHANGED <<op, user, pass, mtx, owner, unanswered>>
       \/ ReturnAnswered(s)
    /\ UNCHANGED <<conn, isLoggedin, username, folderdir, link, users, dirs, store, folderLocks, breached, reached>>

\* OK, and the file is sent, or anything else.
DownloadAck(s) ==
    /\ pc[s] = "downloadAck"
    /\ conn[s] = "open"
    /\ \/ /\ pc' = [pc EXCEPT ![s] = "downloadSend"]
          /\ UNCHANGED <<op, user, pass, mtx, owner, unanswered>>
       \/ ReturnAnswered(s)
    /\ UNCHANGED <<conn, isLoggedin, username, folderdir, link, users, dirs, store, folderLocks, breached, reached>>

DownloadSend(s) ==
    /\ pc[s] = "downloadSend"
    /\ ReturnAnswered(s)
    /\ UNCHANGED <<conn, isLoggedin, username, folderdir, link, users, dirs, store, folderLocks, breached, reached>>
-----------------------------------------------------------------------------
\* The process dies and is started again: what is on disk is all that is left.
Crash ==
    /\ Crashes
    /\ pc'         = [s \in Session |-> "closed"]
    /\ conn'       = [s \in Session |-> "gone"]
    /\ op'         = [s \in Session |-> None]
    /\ user'       = [s \in Session |-> None]
    /\ pass'       = [s \in Session |-> None]
    /\ isLoggedin' = [s \in Session |-> FALSE]
    /\ username'   = [s \in Session |-> None]
    /\ folderdir'  = [s \in Session |-> None]
    /\ mtx'        = [s \in Session |-> None]
    /\ link'       = [s \in Session |-> None]
    /\ unanswered' = [s \in Session |-> None]
    /\ folderLocks' = [n \in Name |-> None]
    /\ owner'      = [m \in Mutex |-> None]
    /\ breached'   = {}
    /\ reached'    = {}
    /\ UNCHANGED <<users, dirs, store>>

AccountStep(s) == \/ RecvUsername(s) \/ CheckRegistration(s) \/ InsertRow(s) \/ LookupUser(s)
                  \/ VerifyPassword(s) \/ StatDirectory(s) \/ MakeDirectory(s)

FolderStep(s) == \/ FindLock(s) \/ InsertLock(s) \/ LockFolder(s)
                 \/ UploadMetadata(s) \/ UploadContent(s) \/ UploadMarker(s)
                 \/ RenameRequest(s) \/ DeleteRequest(s)
                 \/ ListFolder(s) \/ DownloadName(s) \/ DownloadAck(s) \/ DownloadSend(s)

\* What the handler of a command does until it returns.
HandlerStep(s) == ReadFails(s) \/ AccountStep(s) \/ FolderStep(s)

NextCommand(s) == \/ AccountCommand(s) \/ RefusedCommand(s) \/ ListCommand(s)
                  \/ DownloadCommand(s) \/ FolderCommand(s)

Next == \/ \E s \in Session : \/ Accept(s) \/ Disconnect(s) \/ HandlerEnds(s)
                              \/ NextCommand(s) \/ HandlerStep(s)
        \/ Crash

Spec == Init /\ [][Next]_vars

\* The threads run, and a peer whose answer is awaited sends it or goes away.
Fairness == \A s \in Session : WF_vars(HandlerStep(s))

FairSpec == Spec /\ Fairness
-----------------------------------------------------------------------------
(* Properties *)

TypeOK ==
    /\ pc          \in [Session -> PC]
    /\ conn        \in [Session -> {"open", "gone", "freed"}]
    /\ op          \in [Session -> AccountOptions \cup FileOptions \cup {None}]
    /\ user        \in [Session -> Name \cup {None}]
    /\ pass        \in [Session -> Password \cup {None}]
    /\ isLoggedin  \in [Session -> BOOLEAN]
    /\ username    \in [Session -> Name \cup {None}]
    /\ folderdir   \in [Session -> Name \cup {None}]
    /\ mtx         \in [Session -> Mutex \cup {None}]
    /\ link        \in [Session -> Entry \cup {None}]
    /\ unanswered  \in [Session -> AccountOptions \cup FileOptions \cup {None}]
    /\ users       \in [Name -> Password \cup {None}]
    /\ dirs        \subseteq Name
    /\ store       \in [Folder -> [File -> Content]]
    /\ folderLocks \in [Name -> Session \cup {None}]
    /\ owner       \in [Mutex -> Session \cup {None}]
    /\ breached    \subseteq Name
    /\ reached     \subseteq Folder

\* Two sessions are never at once between the lock_guard and the return of an
\* upload, rename or delete in the same folder, unless the folder is breached:
\* the mutexes that operator[] makes on demand really are one per user name.
FolderExclusive ==
    \A s, t \in Session :
        /\ pc[s] \in InLock /\ pc[t] \in InLock
        /\ folderdir[s] = folderdir[t]
        /\ folderdir[s] \notin breached
        => s = t

\* While a session receives the content of an upload, the file it writes keeps
\* its directory entry and nobody else truncates it, unless the folder is
\* breached or a rename or delete from another folder, under another mutex, has
\* reached it during an upload: what gzwrite stores is what the name will show.
UploadIntact ==
    \A s \in Session :
        pc[s] = "content" /\ folderdir[s] \notin breached \cup reached =>
            \E f \in File : /\ link[s] = <<folderdir[s], f>>
                            /\ store[folderdir[s]][f] = "part"

\* Whoever is logged in has a row in the database and a folder on disk (which
\* only a folder with the name of a file can lose again), and nobody else is
\* inside a command on files: a crash, a lost race in ensureDirectory or a
\* failed query never lets a session in half way.
SessionSound ==
    \A s \in Session :
        /\ isLoggedin[s] => /\ users[username[s]] # None
                            /\ username[s] \in dirs \cup GzName
                            /\ folderdir[s] \in Name
        /\ op[s] \in FileOptions => isLoggedin[s]

\* The owner of a mutex is the session that is inside with it.
OwnersInside ==
    \A m \in Mutex : \A s \in Session :
        owner[m] = s <=> mtx[s] = m /\ pc[s] \in InLock

\* A session inside an upload, rename or delete holds a mutex of its user name,
\* and a mutex is held by nobody else: no path gets past the lock_guard without
\* one, and every early return, failed read and lost connection lets it go.
LockedOnlyInside ==
    /\ OwnersInside
    /\ \A s \in Session : pc[s] \in InLock => \E t \in Session : mtx[s] = <<username[s], t>>

\* Whatever registrations race, fail or are cut by a crash, a row once
\* inserted keeps its password hash.
FirstRegistrationWins ==
    [][\A n \in Name : users[n] # None => users'[n] = users[n]]_users

\* A session changes its user name only by a login that presented the password
\* of the row, and a peer that reads OK from registerUser owns the row: the
\* directory exists and the hash stored is that of its own password.
AnswerMeansAccount ==
    [][\A s \in Session :
        \/ username'[s] # username[s] /\ username'[s] # None
        \/ op[s] = "register" /\ pc[s] \in {"ensureDir", "mkdir"}
              /\ pc'[s] = "option" /\ unanswered'[s] = None
        => users[user[s]] = pass[s] /\ user[s] \in dirs']_session

\* The account service that the sessions make together is the one of Accounts:
\* the checks and the two tables of registerUser and loginUser, interleaved,
\* cut by failures and crashes, amount to one step per outcome.
Service == INSTANCE Accounts WITH
    tried    <- [s \in Session |-> IF pass[s] = None THEN None ELSE <<user[s], pass[s]>>],
    loggedAs <- [s \in Session |-> IF isLoggedin[s] THEN username[s] ELSE None]

IsAccountService == Service!Spec

\* A session that holds a folder's mutex lets it go, provided that its peer
\* answers or disconnects: no path through uploadFile, renameFile or
\* deleteFile waits for something only another session could do.
LockReleased ==
    \A s \in Session : pc[s] \in InLock ~> pc[s] \notin InLock

\* The folder a file command works in is the one of the user who is logged in
\* (handlers.cpp:247 "function only performed if client is logged-in", and the
\* mutex taken is that of the user name).  The code breaks it.
OwnFolder ==
    \A s \in Session : op[s] \in FileOptions => folderdir[s] = username[s]

\* A registration never ends without an answer to the peer that waits for it
\* (client handlers.cpp:117 "Wait to receive ACK").  The code breaks it.
RegistrationAnswered ==
    \A s \in Session : unanswered[s] = "register" => conn[s] # "open"
=============================================================================
