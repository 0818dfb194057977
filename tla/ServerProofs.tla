---------------------------- MODULE ServerProofs ----------------------------
(***************************************************************************)
(* Proofs about Server for any sessions, names, passwords and files, with  *)
(* and without faults and crashes.                                         *)
(***************************************************************************)
EXTENDS Server, TLAPS

\* The places of uploadFile, renameFile and deleteFile.
AtFolder == AtLookup \cup {"lock"} \cup InLock

\* What the handler of s has read and decided by the time it is at each place.
ProgressAt(s) ==
    /\ pc[s] \in {"closed", "option"} <=> op[s] = None
    /\ pc[s] \in AtAccount => op[s] \in AccountOptions
    /\ pc[s] \in AtAccount \ {"username"} => user[s] \in Name
    /\ pc[s] \in AtAccount \ {"username", "password"} => pass[s] \in Password
    /\ pc[s] = "insertRow" => op[s] = "register"
    /\ pc[s] = "getHash" => op[s] = "login"
    /\ pc[s] \in {"ensureDir", "mkdir"} => users[user[s]] = pass[s] /\ folderdir[s] = user[s]

Progress == \A s \in Session : ProgressAt(s)

\* A session that is logged in has its name, its row and its folder, and only
\* such a session is inside a command on files.
LoggedAt(s) ==
    /\ isLoggedin[s] => /\ username[s] \in Name /\ folderdir[s] \in Name
                        /\ users[username[s]] # None /\ username[s] \in dirs \cup GzName
    /\ op[s] \in FileOptions => isLoggedin[s]
    /\ pc[s] \in AtFolder => op[s] \in FolderOptions

Logged == \A s \in Session : LoggedAt(s)

LEMMA ReturnTypes ==
    ASSUME TypeOK, NEW s \in Session, Return(s)
    PROVE  /\ pc' \in [Session -> PC]
           /\ op' \in [Session -> AccountOptions \cup FileOptions \cup {None}]
           /\ user' \in [Session -> Name \cup {None}]
           /\ pass' \in [Session -> Password \cup {None}]
           /\ mtx' \in [Session -> Mutex \cup {None}]
           /\ owner' \in [Mutex -> Session \cup {None}]
  BY DEF TypeOK, Return, PC

LEMMA UnansweredTypes ==
    ASSUME TypeOK, NEW s \in Session,
           unanswered' = [unanswered EXCEPT ![s] = op[s]]
    PROVE  unanswered' \in [Session -> AccountOptions \cup FileOptions \cup {None}]
  BY DEF TypeOK

LEMMA EntryParts ==
    ASSUME NEW e \in Entry
    PROVE  e[1] \in Folder /\ e[2] \in File /\ e = <<e[1], e[2]>> /\ e # None
  BY ServerAssumption DEF Entry, ServerAssumption

LEMMA TypeNext == TypeOK /\ Progress /\ Logged /\ [Next]_vars => TypeOK'
<1> SUFFICES ASSUME TypeOK, Progress, Logged, [Next]_vars PROVE TypeOK'
  OBVIOUS
<1> USE DEF TypeOK
<1>1. ASSUME NEW s \in Session,
             \/ Accept(s) \/ Disconnect(s) \/ HandlerEnds(s) \/ NextCommand(s)
      PROVE  TypeOK'
  <2> USE DEF shared, PC, AccountOptions, FileOptions, FolderOptions, AtRead, AtLookup, AtAccount
  <2>1. CASE Accept(s)
    BY <2>1 DEF Accept
  <2>2. CASE Disconnect(s)
    BY <2>2 DEF Disconnect
  <2>3. CASE HandlerEnds(s)
    BY <2>3 DEF HandlerEnds
  <2>4. CASE AccountCommand(s)
    BY <2>4 DEF AccountCommand, Command, Enter
  <2>5. CASE RefusedCommand(s)
    BY <2>5 DEF RefusedCommand, Command
  <2>6. CASE ListCommand(s)
    BY <2>6 DEF ListCommand, Command, Enter
  <2>7. CASE DownloadCommand(s)
    BY <2>7 DEF DownloadCommand, Command, Enter
  <2>8. CASE FolderCommand(s)
    BY <2>8 DEF FolderCommand, Command, Enter
  <2> QED
    BY <1>1, <2>1, <2>2, <2>3, <2>4, <2>5, <2>6, <2>7, <2>8 DEF NextCommand
<1>2. ASSUME NEW s \in Session, ReadFails(s) PROVE TypeOK'
  BY <1>2, ReturnTypes DEF ReadFails, ReturnAnswered
<1>3. ASSUME NEW s \in Session, RecvUsername(s) PROVE TypeOK'
  BY <1>3 DEF RecvUsername, PC, AtAccount, shared
<1>4. ASSUME NEW s \in Session, CheckRegistration(s) PROVE TypeOK'
  <2>1. CASE ReturnAnswered(s)
    BY <1>4, <2>1, ReturnTypes DEF CheckRegistration, ReturnAnswered
  <2>2. CASE ~ReturnAnswered(s)
    BY <1>4, <2>2 DEF CheckRegistration, PC, AtAccount
  <2> QED
    BY <2>1, <2>2
<1>5. ASSUME NEW s \in Session, InsertRow(s) PROVE TypeOK'
  <2>0. user[s] \in Name /\ pass[s] \in Password
    BY <1>5 DEF InsertRow, Progress, ProgressAt, AtAccount
  <2>1. CASE ReturnSilently(s) /\ UNCHANGED <<users, folderdir>>
    BY <1>5, <2>1, ReturnTypes, UnansweredTypes DEF InsertRow, ReturnSilently
  <2>2. CASE /\ users' = [users EXCEPT ![user[s]] = pass[s]]
             /\ folderdir' = [folderdir EXCEPT ![s] = user[s]]
             /\ pc' = [pc EXCEPT ![s] = "ensureDir"]
             /\ UNCHANGED <<op, user, pass, mtx, owner, unanswered>>
    <3>1. UNCHANGED <<conn, link, isLoggedin, username, dirs, store, folderLocks, breached, reached>>
      BY <1>5 DEF InsertRow
    <3> QED
      BY <2>0, <2>2, <3>1 DEF PC, AtAccount
  <2> QED
    BY <1>5, <2>1, <2>2 DEF InsertRow
<1>6. ASSUME NEW s \in Session, LookupUser(s) PROVE TypeOK'
  <2>1. CASE ReturnAnswered(s)
    BY <1>6, <2>1, ReturnTypes DEF LookupUser, ReturnAnswered
  <2>2. CASE ~ReturnAnswered(s)
    BY <1>6, <2>2 DEF LookupUser, PC, AtAccount
  <2> QED
    BY <2>1, <2>2
<1>7. ASSUME NEW s \in Session, VerifyPassword(s) PROVE TypeOK'
  <2>0. user[s] \in Name
    BY <1>7 DEF VerifyPassword, Progress, ProgressAt, AtAccount
  <2>1. CASE ReturnAnswered(s) /\ UNCHANGED folderdir
    BY <1>7, <2>1, ReturnTypes DEF VerifyPassword, ReturnAnswered
  <2>2. CASE ~(ReturnAnswered(s) /\ UNCHANGED folderdir)
    BY <1>7, <2>0, <2>2 DEF VerifyPassword, PC, AtAccount
  <2> QED
    BY <2>1, <2>2
<1>8. ASSUME NEW s \in Session, StatDirectory(s) PROVE TypeOK'
  <2>0. user[s] \in Name
    BY <1>8 DEF StatDirectory, Progress, ProgressAt, AtAccount
  <2>1. CASE AccountDone(s)
    BY <1>8, <2>0, <2>1, ReturnTypes DEF StatDirectory, AccountDone, ReturnAnswered
  <2>2. CASE ~AccountDone(s)
    BY <1>8, <2>2 DEF StatDirectory, PC, AtAccount
  <2> QED
    BY <2>1, <2>2
<1>9. ASSUME NEW s \in Session, MakeDirectory(s) PROVE TypeOK'
  <2>0. user[s] \in Name
    BY <1>9 DEF MakeDirectory, Progress, ProgressAt, AtAccount
  <2>1. CASE AccountDone(s)
    BY <1>9, <2>0, <2>1, ReturnTypes DEF MakeDirectory, AccountDone, ReturnAnswered
  <2>2. CASE ~AccountDone(s)
    BY <1>9, <2>2, ReturnTypes, UnansweredTypes DEF MakeDirectory, ReturnSilently
  <2> QED
    BY <2>1, <2>2
<1>10. ASSUME NEW s \in Session, FindLock(s) \/ InsertLock(s) \/ LockFolder(s)
       PROVE  TypeOK'
  <2>0. username[s] \in Name /\ folderdir[s] \in Name
    <3>1. op[s] \in FileOptions
      BY <1>10 DEF FindLock, InsertLock, LockFolder, Logged, LoggedAt, AtFolder, AtLookup, FileOptions
    <3> QED
      BY <3>1 DEF Logged, LoggedAt
  <2>1. CASE FindLock(s)
    <3>1. breached' \subseteq Name
      BY <2>0, <2>1 DEF FindLock, Inserting, Logged, LoggedAt, AtFolder, AtLookup, FileOptions
    <3>2. mtx' \in [Session -> Mutex \cup {None}]
      BY <2>0, <2>1, ServerAssumption DEF FindLock, Mutex, ServerAssumption
    <3> QED
      BY <2>1, <3>1, <3>2 DEF FindLock, PC, AtLookup
  <2>2. CASE InsertLock(s)
    <3>1. <<username[s], s>> \in Mutex
      BY <2>0 DEF Mutex
    <3>2. folderLocks' \in [Name -> Session \cup {None}] /\ breached' \subseteq Name
      BY <2>0, <2>2 DEF InsertLock
    <3> QED
      BY <2>0, <2>2, <3>1, <3>2 DEF InsertLock, PC
  <2>3. CASE LockFolder(s)
    BY <2>0, <2>3 DEF LockFolder, PC, AtRead, InLock
  <2> QED
    BY <1>10, <2>1, <2>2, <2>3
<1>11. ASSUME NEW s \in Session, UploadMetadata(s) PROVE TypeOK'
  <2>0. folderdir[s] \in Name
    BY <1>11 DEF UploadMetadata, Logged, LoggedAt, FileOptions, FolderOptions
  <2>1. CASE ReturnSilently(s) /\ UNCHANGED <<store, link>>
    BY <1>11, <2>1, ReturnTypes, UnansweredTypes DEF UploadMetadata, ReturnSilently
  <2>2. CASE ReturnAnswered(s) /\ UNCHANGED <<store, link>>
    BY <1>11, <2>2, ReturnTypes DEF UploadMetadata, ReturnAnswered
  <2>3. ASSUME NEW f \in File,
               store' = [store EXCEPT ![folderdir[s]][f] =
                            IF Writers(<<folderdir[s], f>>) = {} THEN "part" ELSE "mixed"],
               link' = [link EXCEPT ![s] = <<folderdir[s], f>>],
               pc' = [pc EXCEPT ![s] = "content"],
               UNCHANGED <<op, user, pass, mtx, owner, unanswered>>
        PROVE  TypeOK'
    <3>1. store' \in [Folder -> [File -> Content]]
      BY <2>0, <2>3, ServerAssumption DEF Content, ServerAssumption
    <3>2. link' \in [Session -> Entry \cup {None}]
      BY <2>0, <2>3, ServerAssumption DEF Entry, ServerAssumption
    <3>3. UNCHANGED <<conn, isLoggedin, username, folderdir, users, dirs, folderLocks, breached, reached>>
      BY <1>11 DEF UploadMetadata
    <3> QED
      BY <2>3, <3>1, <3>2, <3>3 DEF PC, AtRead, InLock
  <2> QED
    BY <1>11, <2>1, <2>2, <2>3 DEF UploadMetadata
<1>12. ASSUME NEW s \in Session, UploadContent(s) PROVE TypeOK'
  <2>1. store' \in [Folder -> [File -> Content]] /\ link' \in [Session -> Entry \cup {None}]
    BY <1>12 DEF UploadContent, Content
  <2>2. CASE ReturnAnswered(s)
    BY <1>12, <2>1, <2>2, ReturnTypes DEF UploadContent, ReturnAnswered
  <2>3. CASE ~ReturnAnswered(s)
    BY <1>12, <2>1, <2>3 DEF UploadContent, PC, AtRead, InLock
  <2> QED
    BY <2>2, <2>3
<1>13. ASSUME NEW s \in Session, UploadMarker(s) PROVE TypeOK'
  BY <1>13, ReturnTypes DEF UploadMarker, ReturnAnswered
<1>14. ASSUME NEW s \in Session, RenameRequest(s) \/ DeleteRequest(s) PROVE TypeOK'
  <2> DEFINE StoreTypes == /\ dirs' \subseteq Name
                           /\ store' \in [Folder -> [File -> Content]]
                           /\ link' \in [Session -> Entry \cup {None}]
             ReachedTypes == reached' \subseteq Folder
  <2>0. folderdir[s] \in Folder /\ GzName \subseteq Folder
    BY <1>14, ServerAssumption
       DEF RenameRequest, DeleteRequest, Logged, LoggedAt, FileOptions, FolderOptions, ServerAssumption
  <2>1. ASSUME NEW e \in Entry, NEW g \in Entry, Rename(e, g), dirs' = dirs PROVE StoreTypes
    BY <2>1, EntryParts DEF Rename, Content
  <2>2. ASSUME NEW n \in GzName, NEW m \in GzName, RenameFolder(n, m) PROVE StoreTypes
    BY <2>2, ServerAssumption DEF RenameFolder, Entry, ServerAssumption
  <2>3. ASSUME NEW e \in Entry, Remove(e), dirs' = dirs PROVE StoreTypes
    BY <2>3, EntryParts DEF Remove, Content
  <2>4. ASSUME NEW n \in GzName, RemoveFolder(n), UNCHANGED <<store, link>> PROVE StoreTypes
    BY <2>4 DEF RemoveFolder
  <2>5. StoreTypes
    BY <1>14, <2>1, <2>2, <2>3, <2>4 DEF RenameRequest, DeleteRequest
  <2>6. \A D \in SUBSET Folder : ReachedFrom(s, D) \subseteq Folder
    BY DEF ReachedFrom
  <2>7. ReachedTypes
    <3>1. ASSUME NEW e \in Entry, NEW g \in Entry, reached' = reached \cup ReachedFrom(s, {e[1], g[1]})
          PROVE  ReachedTypes
      <4>1. {e[1], g[1]} \in SUBSET Folder
        BY EntryParts
      <4> QED
        BY <2>6, <3>1, <4>1
    <3>2. ASSUME NEW n \in GzName, NEW m \in GzName, reached' = reached \cup ReachedFrom(s, {n, m})
          PROVE  ReachedTypes
      BY <2>0, <2>6, <3>2
    <3>3. ASSUME NEW e \in Entry, reached' = reached \cup ReachedFrom(s, {e[1]})
          PROVE  ReachedTypes
      BY <2>6, <3>3, EntryParts
    <3>4. ASSUME NEW n \in GzName, reached' = reached \cup ReachedFrom(s, {n})
          PROVE  ReachedTypes
      BY <2>0, <2>6, <3>4
    <3>5. CASE RenameRequest(s)
      BY <3>1, <3>2, <3>5 DEF RenameRequest
    <3>6. CASE DeleteRequest(s)
      BY <3>3, <3>4, <3>6 DEF DeleteRequest
    <3> QED
      BY <1>14, <3>5, <3>6
  <2> QED
    BY <1>14, <2>5, <2>7, ReturnTypes DEF RenameRequest, DeleteRequest, ReturnAnswered
<1>15. ASSUME NEW s \in Session, ListFolder(s) PROVE TypeOK'
  BY <1>15, ReturnTypes DEF ListFolder, ReturnAnswered
<1>16. ASSUME NEW s \in Session, DownloadName(s) \/ DownloadAck(s) \/ DownloadSend(s)
       PROVE  TypeOK'
  <2>1. CASE ReturnAnswered(s)
    BY <1>16, <2>1, ReturnTypes DEF DownloadName, DownloadAck, DownloadSend, ReturnAnswered
  <2>2. CASE ~ReturnAnswered(s)
    BY <1>16, <2>2 DEF DownloadName, DownloadAck, DownloadSend, PC, AtRead
  <2> QED
    BY <2>1, <2>2
<1>17. CASE Crash
  BY <1>17 DEF Crash, PC
<1>18. CASE UNCHANGED vars
  BY <1>18 DEF vars, session, shared
<1> QED
  BY <1>1, <1>2, <1>3, <1>4, <1>5, <1>6, <1>7, <1>8, <1>9, <1>10, <1>11, <1>12, <1>13,
     <1>14, <1>15, <1>16, <1>17, <1>18
     DEF Next, HandlerStep, NextCommand, AccountStep, FolderStep
-----------------------------------------------------------------------------
\* A step of session s leaves the other sessions where they are.
Frame(s) ==
    \A t \in Session \ {s} :
        /\ pc'[t] = pc[t] /\ conn'[t] = conn[t] /\ op'[t] = op[t]
        /\ user'[t] = user[t] /\ pass'[t] = pass[t]
        /\ isLoggedin'[t] = isLoggedin[t]
        /\ username'[t] = username[t] /\ folderdir'[t] = folderdir[t]
        /\ mtx'[t] = mtx[t] /\ unanswered'[t] = unanswered[t]

SessionStep(s) == \/ Accept(s) \/ Disconnect(s) \/ HandlerEnds(s)
                  \/ NextCommand(s) \/ HandlerStep(s)

LEMMA StepFrame ==
    ASSUME TypeOK, NEW s \in Session, SessionStep(s)
    PROVE  Frame(s)
<1> USE DEF TypeOK, Frame
<1>1. CASE Accept(s) \/ Disconnect(s) \/ HandlerEnds(s)
  BY <1>1 DEF Accept, Disconnect, HandlerEnds
<1>2. CASE NextCommand(s)
  BY <1>2 DEF NextCommand, AccountCommand, RefusedCommand, ListCommand, DownloadCommand,
              FolderCommand, Command, Enter
<1>3. ASSUME Return(s)
      PROVE  \A t \in Session \ {s} :
                 /\ pc'[t] = pc[t] /\ op'[t] = op[t] /\ mtx'[t] = mtx[t]
                 /\ user'[t] = user[t] /\ pass'[t] = pass[t]
  BY <1>3 DEF Return
<1>4. CASE ReadFails(s) \/ UploadMarker(s) \/ RenameRequest(s) \/ DeleteRequest(s)
  BY <1>3, <1>4 DEF ReadFails, UploadMarker, RenameRequest, DeleteRequest, ReturnAnswered
<1>5. CASE ListFolder(s) \/ DownloadSend(s)
  BY <1>3, <1>5 DEF ListFolder, DownloadSend, ReturnAnswered
<1>6. CASE DownloadName(s) \/ DownloadAck(s) \/ UploadContent(s)
  BY <1>3, <1>6 DEF DownloadName, DownloadAck, UploadContent, ReturnAnswered
<1>7. CASE UploadMetadata(s)
  BY <1>3, <1>7 DEF UploadMetadata, ReturnAnswered, ReturnSilently
<1>8. CASE FindLock(s) \/ InsertLock(s) \/ LockFolder(s)
  BY <1>8 DEF FindLock, InsertLock, LockFolder
<1>9. CASE RecvUsername(s)
  BY <1>9 DEF RecvUsername, shared
<1>10. CASE CheckRegistration(s) \/ LookupUser(s)
  BY <1>3, <1>10 DEF CheckRegistration, LookupUser, ReturnAnswered
<1>11. CASE InsertRow(s)
  BY <1>3, <1>11 DEF InsertRow, ReturnSilently
<1>12. CASE VerifyPassword(s)
  BY <1>3, <1>12 DEF VerifyPassword, ReturnAnswered
<1>13. CASE StatDirectory(s) \/ MakeDirectory(s)
  BY <1>3, <1>13 DEF StatDirectory, MakeDirectory, AccountDone, ReturnAnswered, ReturnSilently
<1> QED
  BY <1>1, <1>2, <1>4, <1>5, <1>6, <1>7, <1>8, <1>9, <1>10, <1>11, <1>12, <1>13
     DEF SessionStep, HandlerStep, AccountStep, FolderStep

\* No step takes back a row, nor a directory that has not the name of a file.
LEMMA Persistence ==
    ASSUME TypeOK, Progress, Next
    PROVE  /\ \A n \in Name : users[n] # None => users'[n] = users[n]
           /\ dirs \subseteq dirs' \cup GzName
<1> USE DEF TypeOK
<1>1. ASSUME NEW s \in Session, InsertRow(s)
      PROVE  (\A n \in Name : users[n] # None => users'[n] = users[n]) /\ dirs \subseteq dirs'
  BY <1>1 DEF InsertRow, Progress, ProgressAt, AtAccount
<1>2. ASSUME NEW s \in Session, MakeDirectory(s) PROVE users' = users /\ dirs \subseteq dirs'
  BY <1>2 DEF MakeDirectory
<1>3. ASSUME NEW s \in Session, RenameRequest(s) \/ DeleteRequest(s)
      PROVE  users' = users /\ dirs \subseteq dirs' \cup GzName
  BY <1>3 DEF RenameRequest, RenameFolder, DeleteRequest, RemoveFolder
<1>4. ASSUME NEW s \in Session, SessionStep(s), ~InsertRow(s), ~MakeDirectory(s),
             ~RenameRequest(s), ~DeleteRequest(s)
      PROVE  users' = users /\ dirs' = dirs
  BY <1>4 DEF SessionStep, HandlerStep, AccountStep, FolderStep, NextCommand, Accept,
     Disconnect, HandlerEnds, AccountCommand, RefusedCommand, ListCommand, DownloadCommand,
     FolderCommand, Command, ReadFails, RecvUsername, CheckRegistration, LookupUser,
     VerifyPassword, StatDirectory, FindLock, InsertLock, LockFolder, UploadMetadata,
     UploadContent, UploadMarker, ListFolder, DownloadName, DownloadAck, DownloadSend, shared
<1>5. CASE Crash
  BY <1>5 DEF Crash
<1> QED
  BY <1>1, <1>2, <1>3, <1>4, <1>5 DEF Next, SessionStep
-----------------------------------------------------------------------------
\* What Return leaves behind satisfies ProgressAt, whoever it is.
LEMMA ReturnProgress ==
    ASSUME TypeOK, NEW s \in Session, Return(s)
    PROVE  /\ pc'[s] = "option" /\ op'[s] = None
           /\ ProgressAt(s)'
  BY DEF TypeOK, Return, ProgressAt, AtAccount

\* ... and LoggedAt, when the members and the tables allow it.
LEMMA ReturnLogged ==
    ASSUME TypeOK, NEW s \in Session, Return(s), LoggedAt(s),
           isLoggedin' = isLoggedin, username' = username, folderdir'[s] \in Name \/ folderdir' = folderdir,
           \A n \in Name : users[n] # None => users'[n] = users[n],
           dirs \subseteq dirs' \cup GzName
    PROVE  LoggedAt(s)'
<1>1. op'[s] = None /\ pc'[s] = "option"
  BY ReturnProgress
<1> QED
  BY <1>1, ServerAssumption
     DEF LoggedAt, ServerAssumption, AtFolder, AtLookup, InLock

LEMMA ActorProgress ==
    ASSUME TypeOK, Progress, Logged, Next, NEW s \in Session, SessionStep(s)
    PROVE  ProgressAt(s)' /\ LoggedAt(s)'
<1> DEFINE Goal == ProgressAt(s)' /\ LoggedAt(s)'
<1> SUFFICES Goal
  OBVIOUS
<1>p. ProgressAt(s) /\ LoggedAt(s)
  BY DEF Progress, Logged
<1>d. (\A n \in Name : users[n] # None => users'[n] = users[n]) /\ dirs \subseteq dirs' \cup GzName
  BY Persistence
<1> USE <1>p, ServerAssumption
    DEF TypeOK, ServerAssumption, AccountOptions, FileOptions, FolderOptions
<1>r. ASSUME Return(s), isLoggedin' = isLoggedin, username' = username,
             folderdir'[s] \in Name \/ folderdir' = folderdir
      PROVE  Goal
  BY <1>r, <1>d, ReturnProgress, ReturnLogged
<1>1. CASE Accept(s) \/ Disconnect(s) \/ HandlerEnds(s)
  BY <1>1 DEF Accept, Disconnect, HandlerEnds, shared, ProgressAt, LoggedAt, AtAccount,
              AtFolder, AtLookup, InLock
<1>2. CASE NextCommand(s)
  <2> USE DEF shared, Command, Enter, ProgressAt, LoggedAt, AtAccount, AtFolder, AtLookup, InLock
  <2>1. CASE AccountCommand(s)
    BY <2>1 DEF AccountCommand
  <2>2. CASE RefusedCommand(s)
    BY <2>2 DEF RefusedCommand
  <2>3. CASE ListCommand(s) \/ DownloadCommand(s)
    BY <2>3 DEF ListCommand, DownloadCommand
  <2>4. CASE FolderCommand(s)
    BY <2>4 DEF FolderCommand
  <2> QED
    BY <1>2, <2>1, <2>2, <2>3, <2>4 DEF NextCommand
<1>3. CASE ReadFails(s) \/ UploadMarker(s) \/ RenameRequest(s) \/ DeleteRequest(s)
  BY <1>3, <1>r DEF ReadFails, UploadMarker, RenameRequest, DeleteRequest, ReturnAnswered
<1>4. CASE ListFolder(s) \/ DownloadSend(s)
  BY <1>4, <1>r DEF ListFolder, DownloadSend, ReturnAnswered
<1>5. CASE DownloadName(s) \/ DownloadAck(s) \/ UploadContent(s)
  <2>1. CASE Return(s)
    BY <1>5, <2>1, <1>r DEF DownloadName, DownloadAck, UploadContent
  <2>2. CASE ~Return(s)
    <3>1. \E l \in {"downloadAck", "downloadSend", "marker"} : pc' = [pc EXCEPT ![s] = l]
      BY <1>5, <2>2 DEF DownloadName, DownloadAck, UploadContent, ReturnAnswered
    <3>2. (pc[s] = "content" \/ pc[s] \notin AtFolder) /\ pc[s] \notin {"closed", "option"}
      BY <1>5 DEF DownloadName, DownloadAck, UploadContent, AtFolder, AtLookup, InLock
    <3>3. /\ pc[s] = "content" \/ pc'[s] # "marker"
          /\ UNCHANGED <<op, user, pass, isLoggedin, username, folderdir, users, dirs>>
      BY <1>5, <2>2 DEF DownloadName, DownloadAck, UploadContent, ReturnAnswered
    <3> QED
      BY <3>1, <3>2, <3>3 DEF ProgressAt, LoggedAt, AtAccount, AtFolder, AtLookup, InLock
  <2> QED
    BY <2>1, <2>2
<1>6. CASE UploadMetadata(s)
  <2>1. CASE Return(s)
    BY <1>6, <2>1, <1>r DEF UploadMetadata
  <2>2. CASE ~Return(s)
    <3>1. /\ pc' = [pc EXCEPT ![s] = "content"]
          /\ UNCHANGED <<op, user, pass, isLoggedin, username, folderdir, users, dirs>>
      BY <1>6, <2>2 DEF UploadMetadata, ReturnAnswered, ReturnSilently
    <3>2. pc[s] = "metadata"
      BY <1>6 DEF UploadMetadata
    <3> QED
      BY <3>1, <3>2 DEF ProgressAt, LoggedAt, AtAccount, AtFolder, AtLookup, InLock
  <2> QED
    BY <2>1, <2>2
<1>7. CASE FindLock(s) \/ InsertLock(s) \/ LockFolder(s)
  BY <1>7 DEF FindLock, InsertLock, LockFolder, ProgressAt, LoggedAt, AtAccount, AtFolder,
              AtLookup, InLock
<1>8. CASE RecvUsername(s)
  BY <1>8 DEF RecvUsername, shared, ProgressAt, LoggedAt, AtAccount, AtFolder, AtLookup, InLock
<1>9. CASE CheckRegistration(s) \/ LookupUser(s)
  <2>1. CASE Return(s)
    BY <1>9, <2>1, <1>r DEF CheckRegistration, LookupUser
  <2>2. CASE ~Return(s)
    BY <1>9, <2>2 DEF CheckRegistration, LookupUser, ReturnAnswered,
       ProgressAt, LoggedAt, AtAccount, AtFolder, AtLookup, InLock
  <2> QED
    BY <2>1, <2>2
<1>10. CASE InsertRow(s)
  <2>1. CASE ReturnSilently(s) /\ UNCHANGED <<users, folderdir>>
    BY <1>10, <2>1, <1>r DEF InsertRow, ReturnSilently
  <2>2. CASE /\ users' = [users EXCEPT ![user[s]] = pass[s]]
             /\ folderdir' = [folderdir EXCEPT ![s] = user[s]]
             /\ pc' = [pc EXCEPT ![s] = "ensureDir"]
             /\ UNCHANGED <<op, user, pass, mtx, owner, unanswered>>
    <3>1. user[s] \in Name /\ pass[s] \in Password /\ op[s] = "register"
      BY <1>10 DEF InsertRow, ProgressAt, AtAccount
    <3>2. UNCHANGED <<isLoggedin, username, dirs>>
      BY <1>10 DEF InsertRow
    <3> QED
      BY <1>d, <2>2, <3>1, <3>2 DEF ProgressAt, LoggedAt, AtAccount, AtFolder, AtLookup, InLock
  <2> QED
    BY <1>10, <2>1, <2>2 DEF InsertRow
<1>11. CASE VerifyPassword(s)
  <2>1. CASE Return(s)
    <3>1. folderdir'[s] \in Name \/ folderdir' = folderdir
      BY <1>11 DEF VerifyPassword, ProgressAt, AtAccount
    <3> QED
      BY <1>11, <2>1, <3>1, <1>r DEF VerifyPassword
  <2>2. CASE ~Return(s)
    BY <1>11, <2>2 DEF VerifyPassword, ReturnAnswered,
       ProgressAt, LoggedAt, AtAccount, AtFolder, AtLookup, InLock
  <2> QED
    BY <2>1, <2>2
<1>12. CASE StatDirectory(s) \/ MakeDirectory(s)
  <2>0. /\ user[s] \in Name /\ pass[s] \in Password /\ users[user[s]] = pass[s]
        /\ folderdir[s] = user[s] /\ users' = users /\ folderdir' = folderdir
    BY <1>12 DEF StatDirectory, MakeDirectory, ProgressAt, AtAccount
  <2>1. CASE AccountDone(s) /\ op[s] = "login" /\ user[s] \in dirs'
    <3>1. isLoggedin'[s] = TRUE /\ username'[s] = user[s] /\ Return(s)
      BY <2>1 DEF AccountDone, ReturnAnswered
    <3> QED
      BY <2>0, <2>1, <3>1, ReturnProgress DEF LoggedAt, AtFolder, AtLookup, InLock
  <2>2. CASE AccountDone(s) /\ op[s] # "login"
    BY <2>0, <2>2, <1>r DEF AccountDone, ReturnAnswered
  <2>3. CASE ReturnSilently(s) /\ UNCHANGED <<isLoggedin, username>>
    BY <2>0, <2>3, <1>r DEF ReturnSilently
  <2>4. CASE StatDirectory(s) /\ user[s] \notin dirs
    BY <2>0, <2>4, <1>d DEF StatDirectory, ProgressAt, LoggedAt, AtAccount, AtFolder, AtLookup, InLock
  <2> QED
    BY <1>12, <2>0, <2>1, <2>2, <2>3, <2>4 DEF StatDirectory, MakeDirectory
<1> QED
  BY <1>1, <1>2, <1>3, <1>4, <1>5, <1>6, <1>7, <1>8, <1>9, <1>10, <1>11, <1>12
     DEF SessionStep, HandlerStep, AccountStep, FolderStep

LEMMA ProgressNext ==
    TypeOK /\ Progress /\ Logged /\ [Next]_vars => TypeOK' /\ Progress' /\ Logged'
<1> SUFFICES ASSUME TypeOK, Progress, Logged, [Next]_vars
             PROVE  TypeOK' /\ Progress' /\ Logged'
  OBVIOUS
<1>0. TypeOK'
  BY TypeNext
<1>1. ASSUME NEW s \in Session, SessionStep(s), NEW t \in Session
      PROVE  ProgressAt(t)' /\ LoggedAt(t)'
  <2>1. CASE t = s
    BY <1>1, <2>1, ActorProgress DEF Next, SessionStep
  <2>2. CASE t # s
    <3>1. /\ pc'[t] = pc[t] /\ op'[t] = op[t] /\ user'[t] = user[t] /\ pass'[t] = pass[t]
          /\ isLoggedin'[t] = isLoggedin[t] /\ username'[t] = username[t]
          /\ folderdir'[t] = folderdir[t]
      BY <1>1, <2>2, StepFrame DEF Frame
    <3>2. (\A n \in Name : users[n] # None => users'[n] = users[n]) /\ dirs \subseteq dirs' \cup GzName
      BY <1>1, Persistence DEF Next, SessionStep
    <3>3. ProgressAt(t) /\ LoggedAt(t)
      BY DEF Progress, Logged
    <3>4. ProgressAt(t)'
      BY <3>1, <3>2, <3>3, ServerAssumption DEF ProgressAt, AtAccount, ServerAssumption
    <3>5. LoggedAt(t)'
      BY <3>1, <3>2, <3>3 DEF LoggedAt
    <3> QED
      BY <3>4, <3>5
  <2> QED
    BY <2>1, <2>2
<1>2. ASSUME Crash, NEW t \in Session PROVE ProgressAt(t)' /\ LoggedAt(t)'
  BY <1>2, ServerAssumption DEF Crash, ProgressAt, LoggedAt, AtAccount, AtFolder, AtLookup,
     InLock, ServerAssumption
<1>3. ASSUME UNCHANGED vars, NEW t \in Session PROVE ProgressAt(t)' /\ LoggedAt(t)'
  BY <1>3 DEF vars, session, shared, Progress, Logged, ProgressAt, LoggedAt
<1>4. \A t \in Session : ProgressAt(t)' /\ LoggedAt(t)'
  BY <1>1, <1>2, <1>3 DEF Next, SessionStep
<1> QED
  BY <1>0, <1>4 DEF Progress, Logged

LEMMA ProgressInit == Init => TypeOK /\ Progress /\ Logged
<1> SUFFICES ASSUME Init PROVE TypeOK /\ Progress /\ Logged
  OBVIOUS
<1> USE ServerAssumption DEF Init, ServerAssumption
<1>1. TypeOK
  BY DEF TypeOK, PC, Content
<1>2. Progress
  BY DEF Progress, ProgressAt, AtAccount
<1>3. Logged
  BY DEF Logged, LoggedAt, AtFolder, AtLookup, InLock, FileOptions, FolderOptions
<1> QED
  BY <1>1, <1>2, <1>3

LEMMA Progressing == Spec => [](TypeOK /\ Progress /\ Logged)
  BY ProgressInit, ProgressNext, PTL DEF Spec

\* Every variable of the server keeps its type.
THEOREM Typing == Spec => []TypeOK
  BY Progressing, PTL

\* A session that is logged in has a row and a folder whatever else happens,
\* and only such a session works on files.
THEOREM SessionsAreSound == Spec => []SessionSound
<1>1. Logged => SessionSound
  BY DEF Logged, LoggedAt, SessionSound
<1> QED
  BY <1>1, Progressing, PTL

\* The row of a name is never replaced: racing registrations have one winner.
THEOREM RowsAreFinal == Spec => FirstRegistrationWins
<1>1. TypeOK /\ Progress /\ [Next]_vars =>
          [\A n \in Name : users[n] # None => users'[n] = users[n]]_users
  BY Persistence DEF vars, shared
<1> QED
  BY <1>1, Progressing, PTL DEF Spec, FirstRegistrationWins
-----------------------------------------------------------------------------
(* The mutexes of folderLocks *)

Holding == {"lock"} \cup InLock

\* The mutex a session refers to is a node of its own user name; as long as
\* the name is not breached, it is the one node that lookups find.
LockingAt(s) ==
    /\ mtx[s] # None <=> pc[s] \in Holding
    /\ mtx[s] # None => \E k \in Session : mtx[s] = <<username[s], k>>
    /\ pc[s] \in Holding /\ username[s] \notin breached =>
           folderLocks[username[s]] # None /\ mtx[s] = <<username[s], folderLocks[username[s]]>>
    /\ pc[s] = "insertLock" /\ username[s] \notin breached => folderLocks[username[s]] = None
    /\ pc[s] \in InLock /\ folderdir[s] \notin breached => folderdir[s] = username[s]

\* Two insertions at the same time breach the names of both.
Overlap ==
    \A s, t \in Session :
        s # t /\ pc[s] = "insertLock" /\ pc[t] = "insertLock" => username[s] \in breached

Locking == (\A s \in Session : LockingAt(s)) /\ Overlap /\ OwnersInside

\* The kinds of steps of a session, as far as the mutexes are concerned.
LockVars == <<mtx, owner, folderLocks, breached>>

Neutral(s) == /\ pc[s] \notin AtFolder /\ pc'[s] \notin AtFolder \ {"find"}
              /\ UNCHANGED LockVars
Inside(s)  == /\ pc' = pc \/ (pc[s] \in InLock /\ pc'[s] \in InLock)
              /\ UNCHANGED <<username, folderdir>> /\ UNCHANGED LockVars
Release(s) == /\ pc[s] \in InLock
              /\ Return(s)
              /\ UNCHANGED <<username, folderdir, folderLocks, breached>>

\* A handler that returns without a mutex leaves the mutexes alone.
LEMMA ReturnNeutral ==
    ASSUME TypeOK, Locking, NEW s \in Session, Return(s), pc[s] \notin AtFolder,
           UNCHANGED <<folderLocks, breached>>
    PROVE  Neutral(s)
<1>1. mtx[s] = None
  BY DEF Locking, LockingAt, Holding, AtFolder
<1>2. mtx' = mtx
  BY <1>1 DEF Return, TypeOK
<1>3. \A m \in Mutex : owner[m] # s
  BY <1>1, ServerAssumption DEF Locking, OwnersInside, AtFolder, ServerAssumption, Mutex
<1>4. owner' = owner
  BY <1>3 DEF Return, TypeOK
<1>5. pc'[s] = "option"
  BY DEF Return, TypeOK
<1> QED
  BY <1>2, <1>4, <1>5 DEF Neutral, LockVars, AtFolder, AtLookup, InLock

LEMMA Kinds ==
    ASSUME TypeOK, Logged, Locking, NEW s \in Session, SessionStep(s)
    PROVE  \/ Neutral(s) \/ Inside(s) \/ Release(s)
           \/ FindLock(s) \/ InsertLock(s) \/ LockFolder(s)
<1> USE DEF AtFolder, AtLookup, InLock, AtAccount
<1>1. CASE Disconnect(s)
  <2>1. pc' = pc /\ UNCHANGED <<username, folderdir, mtx, owner, folderLocks, breached>>
    BY <1>1 DEF Disconnect, shared
  <2> QED
    BY <2>1 DEF Inside, LockVars
<1>2. CASE Accept(s) \/ HandlerEnds(s)
  BY <1>2 DEF Accept, HandlerEnds, Neutral, shared, LockVars, TypeOK
<1>3. CASE NextCommand(s)
  BY <1>3 DEF NextCommand, AccountCommand, RefusedCommand, ListCommand, DownloadCommand,
              FolderCommand, Command, Enter, Neutral, shared, LockVars, TypeOK
<1>4. CASE ReadFails(s)
  <2>1. CASE pc[s] \in InLock
    BY <1>4, <2>1 DEF ReadFails, ReturnAnswered, Release
  <2>2. CASE pc[s] \notin InLock
    BY <1>4, <2>2, ReturnNeutral DEF ReadFails, ReturnAnswered, AtRead
  <2> QED
    BY <2>1, <2>2
<1>5. CASE UploadMarker(s) \/ RenameRequest(s) \/ DeleteRequest(s)
  BY <1>5 DEF UploadMarker, RenameRequest, DeleteRequest, ReturnAnswered, Release
<1>6. CASE UploadMetadata(s)
  <2>1. CASE Return(s)
    BY <1>6, <2>1 DEF UploadMetadata, Release
  <2>2. CASE ~Return(s)
    BY <1>6, <2>2 DEF UploadMetadata, ReturnAnswered, ReturnSilently, Inside, LockVars, TypeOK
  <2> QED
    BY <2>1, <2>2
<1>7. CASE UploadContent(s)
  <2>1. CASE Return(s)
    BY <1>7, <2>1 DEF UploadContent, Release
  <2>2. CASE ~Return(s)
    BY <1>7, <2>2 DEF UploadContent, ReturnAnswered, Inside, LockVars, TypeOK
  <2> QED
    BY <2>1, <2>2
<1>8. CASE ListFolder(s) \/ DownloadName(s) \/ DownloadAck(s) \/ DownloadSend(s)
  <2>1. CASE Return(s)
    BY <1>8, <2>1, ReturnNeutral DEF ListFolder, DownloadName, DownloadAck, DownloadSend
  <2>2. CASE ~Return(s)
    BY <1>8, <2>2 DEF ListFolder, DownloadName, DownloadAck, DownloadSend, ReturnAnswered,
       Neutral, LockVars, TypeOK
  <2> QED
    BY <2>1, <2>2
<1>9. CASE AccountStep(s)
  <2>0. pc[s] \in AtAccount /\ UNCHANGED <<folderLocks, breached>>
    BY <1>9 DEF AccountStep, RecvUsername, CheckRegistration, InsertRow, LookupUser,
       VerifyPassword, StatDirectory, MakeDirectory, shared
  <2>1. CASE Return(s)
    BY <2>0, <2>1, ReturnNeutral
  <2>2. CASE ~Return(s)
    <3>1. pc'[s] \in AtAccount /\ UNCHANGED <<mtx, owner>>
      BY <1>9, <2>2 DEF AccountStep, RecvUsername, CheckRegistration, InsertRow, LookupUser,
         VerifyPassword, StatDirectory, MakeDirectory, AccountDone, ReturnAnswered,
         ReturnSilently, shared, TypeOK
    <3> QED
      BY <2>0, <3>1 DEF Neutral, LockVars
  <2> QED
    BY <2>1, <2>2
<1> QED
  BY <1>1, <1>2, <1>3, <1>4, <1>5, <1>6, <1>7, <1>8, <1>9
     DEF SessionStep, HandlerStep, FolderStep

\* While a name is not breached and has no node, nobody holds a mutex of it.
LEMMA LockingNext ==
    TypeOK /\ Progress /\ Logged /\ Locking /\ [Next]_vars => Locking'
<1> SUFFICES ASSUME TypeOK, Progress, Logged, Locking, [Next]_vars PROVE Locking'
  OBVIOUS
<1> USE ServerAssumption DEF ServerAssumption
<1>0. TypeOK'
  BY TypeNext
<1>1. ASSUME NEW s \in Session, SessionStep(s) PROVE Locking'
  <2>0. Frame(s) /\ LockingAt(s)
    BY <1>1, StepFrame DEF Locking
  <2>n. username[s] \in Name \/ pc[s] \notin AtFolder
    BY DEF Logged, LoggedAt, FileOptions, FolderOptions
  <2>1. CASE Neutral(s)
    <3>1. ASSUME NEW t \in Session PROVE LockingAt(t)'
      <4>1. CASE t = s
        BY <2>0, <2>1, <4>1 DEF Neutral, LockVars, LockingAt, Holding, AtFolder, AtLookup, InLock
      <4>2. CASE t # s
        BY <2>0, <2>1, <4>2 DEF Neutral, LockVars, LockingAt, Frame, Locking
      <4> QED
        BY <4>1, <4>2
    <3>2. Overlap'
      BY <2>0, <2>1 DEF Neutral, LockVars, Overlap, Frame, Locking, AtFolder, AtLookup, InLock
    <3>3. OwnersInside'
      <4>1. pc[s] \notin InLock /\ pc'[s] \notin InLock /\ UNCHANGED LockVars
        BY <2>1 DEF Neutral, AtFolder, AtLookup, InLock
      <4> QED
        BY <2>0, <4>1 DEF LockVars, OwnersInside, Frame, Locking
    <3> QED
      BY <3>1, <3>2, <3>3 DEF Locking
  <2>2. CASE Inside(s)
    <3>1. ASSUME NEW t \in Session PROVE LockingAt(t)'
      BY <2>0, <2>2 DEF Inside, LockVars, LockingAt, Holding, InLock, Frame, Locking
    <3>2. Overlap'
      BY <2>0, <2>2 DEF Inside, LockVars, Overlap, Frame, Locking, InLock
    <3>3. OwnersInside'
      BY <2>0, <2>2 DEF Inside, LockVars, OwnersInside, Frame, Locking
    <3> QED
      BY <3>1, <3>2, <3>3 DEF Locking
  <2>3. CASE Release(s)
    <3>0. /\ pc'[s] = "option" /\ mtx'[s] = None
          /\ owner' = [m \in Mutex |-> IF owner[m] = s THEN None ELSE owner[m]]
          /\ UNCHANGED <<username, folderdir, folderLocks, breached>>
      BY <2>3 DEF Release, Return, TypeOK
    <3>1. ASSUME NEW t \in Session PROVE LockingAt(t)'
      <4>1. CASE t = s
        BY <3>0, <4>1 DEF LockingAt, Holding, InLock
      <4>2. CASE t # s
        BY <2>0, <3>0, <4>2 DEF LockingAt, Frame, Locking
      <4> QED
        BY <4>1, <4>2
    <3>2. Overlap'
      BY <2>0, <3>0 DEF Overlap, Frame, Locking
    <3>3. OwnersInside'
      <4>1. ASSUME NEW m \in Mutex, NEW t \in Session
            PROVE  owner'[m] = t <=> mtx'[t] = m /\ pc'[t] \in InLock
        <5>1. CASE t = s
          BY <3>0, <5>1 DEF InLock
        <5>2. CASE t # s
          BY <2>0, <3>0, <5>2 DEF Frame, Locking, OwnersInside
        <5> QED
          BY <5>1, <5>2
      <4> QED
        BY <4>1 DEF OwnersInside
    <3> QED
      BY <3>1, <3>2, <3>3 DEF Locking
  <2>4. CASE FindLock(s)
    <3>0. /\ pc[s] = "find" /\ username[s] \in Name
          /\ UNCHANGED <<username, folderdir, folderLocks, owner>>
          /\ breached \subseteq breached'
      BY <2>4, <2>n DEF FindLock, AtFolder, AtLookup
    <3>1. LockingAt(s)'
      BY <2>0, <2>4, <3>0 DEF FindLock, LockingAt, Holding, InLock, TypeOK
    <3>2. ASSUME NEW t \in Session, t # s PROVE LockingAt(t)'
      BY <2>0, <3>0, <3>2 DEF LockingAt, Frame, Locking
    <3>3. Overlap'
      <4> SUFFICES ASSUME NEW t \in Session, NEW u \in Session, t # u,
                          pc'[t] = "insertLock", pc'[u] = "insertLock"
                   PROVE  username'[t] \in breached'
        BY DEF Overlap
      <4>1. CASE t # s /\ u # s
        BY <2>0, <3>0, <4>1 DEF Frame, Overlap, Locking
      <4>2. CASE t = s \/ u = s
        <5>1. pc'[s] = "insertLock"
          BY <4>2
        <5>2. breached' = IF Inserting = {} THEN breached
                          ELSE breached \cup {username[v] : v \in Inserting \cup {s}}
          BY <2>4, <5>1 DEF FindLock, TypeOK
        <5>3. t \in Inserting \cup {s} /\ Inserting # {}
          BY <2>0, <4>2 DEF Frame, Inserting
        <5> QED
          BY <3>0, <5>2, <5>3
      <4> QED
        BY <4>1, <4>2
    <3>4. OwnersInside'
      <4>1. ASSUME NEW m \in Mutex, NEW t \in Session
            PROVE  owner'[m] = t <=> mtx'[t] = m /\ pc'[t] \in InLock
        <5>1. CASE t = s
          BY <2>4, <3>0, <5>1 DEF FindLock, InLock, TypeOK, Locking, OwnersInside
        <5>2. CASE t # s
          BY <2>0, <3>0, <5>2 DEF Frame, Locking, OwnersInside
        <5> QED
          BY <5>1, <5>2
      <4> QED
        BY <4>1 DEF OwnersInside
    <3> QED
      BY <3>1, <3>2, <3>3, <3>4 DEF Locking
  <2>5. CASE InsertLock(s)
    <3>0. /\ pc[s] = "insertLock" /\ pc'[s] = "lock" /\ username[s] \in Name
          /\ mtx'[s] = <<username[s], s>>
          /\ UNCHANGED <<username, folderdir, owner>>
      BY <2>5, <2>n DEF InsertLock, AtFolder, AtLookup, TypeOK
    <3>l. PICK lost \in SUBSET ({n \in Name : folderLocks[n] # None} \cup {username[s]}) :
              /\ lost # {} => Inserting # {s}
              /\ folderLocks' = [n \in Name |-> IF n \in lost THEN None
                                     ELSE IF n = username[s] THEN s ELSE folderLocks[n]]
              /\ breached' = breached \cup lost
      BY <2>5 DEF InsertLock
    <3>a. lost # {} => username[s] \in breached
      BY <3>0, <3>l DEF Inserting, Overlap, Locking
    <3>1. LockingAt(s)'
      <4>1. username[s] \notin breached' => folderLocks'[username[s]] = s
        BY <3>0, <3>l, <3>a
      <4> QED
        BY <3>0, <4>1 DEF LockingAt, Holding, InLock
    <3>2. ASSUME NEW t \in Session, t # s PROVE LockingAt(t)'
      <4>0. /\ LockingAt(t) /\ pc'[t] = pc[t] /\ mtx'[t] = mtx[t]
            /\ username[t] = username[s] /\ username[t] \notin breached =>
                   pc[t] \notin Holding \cup {"insertLock"}
        BY <2>0, <3>0, <3>2 DEF LockingAt, Frame, Locking, Overlap
      <4>1. username[t] # username[s] /\ username[t] \in Name /\ username[t] \notin breached' =>
                folderLocks'[username[t]] = folderLocks[username[t]]
        BY <3>l
      <4>2. pc[t] \in Holding \cup {"insertLock"} => username[t] \in Name
        BY DEF Logged, LoggedAt, FileOptions, FolderOptions, AtFolder, AtLookup, Holding
      <4>3. username'[t] = username[t] /\ folderdir'[t] = folderdir[t]
        BY <3>0
      <4> QED
        BY <3>l, <4>0, <4>1, <4>2, <4>3 DEF LockingAt, Holding
    <3>3. Overlap'
      BY <2>0, <3>0, <3>l DEF Overlap, Frame, Locking
    <3>4. OwnersInside'
      <4>1. ASSUME NEW m \in Mutex, NEW t \in Session
            PROVE  owner'[m] = t <=> mtx'[t] = m /\ pc'[t] \in InLock
        <5>1. CASE t = s
          BY <3>0, <5>1 DEF InLock, Locking, OwnersInside
        <5>2. CASE t # s
          BY <2>0, <3>0, <5>2 DEF Frame, Locking, OwnersInside
        <5> QED
          BY <5>1, <5>2
      <4> QED
        BY <4>1 DEF OwnersInside
    <3> QED
      BY <3>1, <3>2, <3>3, <3>4 DEF Locking
  <2>6. CASE LockFolder(s)
    <3>0. /\ pc[s] = "lock" /\ pc'[s] = "metadata"
          /\ owner[mtx[s]] = None /\ owner' = [owner EXCEPT ![mtx[s]] = s]
          /\ UNCHANGED <<username, folderdir, mtx, folderLocks>>
          /\ breached \subseteq breached'
          /\ folderdir[s] # username[s] => folderdir[s] \in breached'
      BY <2>6 DEF LockFolder, TypeOK
    <3>a. mtx[s] \in Mutex
      BY <2>0, <3>0 DEF LockingAt, Holding, TypeOK
    <3>1. LockingAt(s)'
      BY <2>0, <3>0 DEF LockingAt, Holding, InLock
    <3>2. ASSUME NEW t \in Session, t # s PROVE LockingAt(t)'
      BY <2>0, <3>0, <3>2 DEF LockingAt, Frame, Locking
    <3>3. Overlap'
      BY <2>0, <3>0 DEF Overlap, Frame, Locking
    <3>4. OwnersInside'
      <4>1. ASSUME NEW m \in Mutex, NEW t \in Session
            PROVE  owner'[m] = t <=> mtx'[t] = m /\ pc'[t] \in InLock
        <5>1. CASE t = s
          BY <3>0, <3>a, <5>1 DEF InLock, Locking, OwnersInside, TypeOK
        <5>2. CASE t # s
          BY <2>0, <3>0, <3>a, <5>2 DEF Frame, Locking, OwnersInside, TypeOK
        <5> QED
          BY <5>1, <5>2
      <4> QED
        BY <4>1 DEF OwnersInside
    <3> QED
      BY <3>1, <3>2, <3>3, <3>4 DEF Locking
  <2> QED
    BY <1>1, <2>1, <2>2, <2>3, <2>4, <2>5, <2>6, Kinds
<1>2. CASE Crash
  BY <1>2 DEF Crash, Locking, LockingAt, Overlap, OwnersInside, Holding, InLock
<1>3. CASE UNCHANGED vars
  BY <1>3 DEF vars, session, shared, Locking, LockingAt, Overlap, OwnersInside
<1> QED
  BY <1>1, <1>2, <1>3 DEF Next, SessionStep

LEMMA LockingInit == Init => Locking
  BY ServerAssumption
     DEF Init, Locking, LockingAt, Overlap, OwnersInside, Holding, InLock, ServerAssumption

LEMMA LocksKept == Spec => [](TypeOK /\ Progress /\ Logged /\ Locking)
  BY ProgressInit, ProgressNext, LockingInit, LockingNext, PTL DEF Spec

\* No path gets inside an upload, rename or delete without a mutex of the user
\* name, every path out of them releases it, and no other path touches one.
THEOREM LocksFollowHandlers == Spec => []LockedOnlyInside
<1>1. Locking => LockedOnlyInside
  <2> SUFFICES ASSUME Locking, NEW s \in Session, pc[s] \in InLock
               PROVE  \E t \in Session : mtx[s] = <<username[s], t>>
    BY DEF Locking, LockedOnlyInside
  <2> QED
    BY DEF Locking, LockingAt, Holding
<1> QED
  BY <1>1, LocksKept, PTL

\* At most one session at a time works inside a folder that is not breached.
THEOREM FoldersAreExclusive == Spec => []FolderExclusive
<1>1. TypeOK /\ Locking => FolderExclusive
  <2> SUFFICES ASSUME TypeOK, Locking, NEW s \in Session, NEW t \in Session,
                      pc[s] \in InLock, pc[t] \in InLock,
                      folderdir[s] = folderdir[t], folderdir[s] \notin breached
               PROVE  s = t
    BY DEF FolderExclusive
  <2>1. LockingAt(s) /\ LockingAt(t)
    BY DEF Locking
  <2>2. username[s] = username[t] /\ mtx[s] = mtx[t] /\ mtx[s] # None
    BY <2>1 DEF LockingAt, Holding
  <2>3. mtx[s] \in Mutex
    BY <2>2 DEF TypeOK
  <2>4. owner[mtx[s]] = s /\ owner[mtx[s]] = t
    BY <2>2, <2>3 DEF Locking, OwnersInside
  <2> QED
    BY <2>4
<1> QED
  BY <1>1, LocksKept, PTL
-----------------------------------------------------------------------------
(* Uploads *)

\* The folders whose mutex does not answer for an upload.
Exempt == breached \cup reached

\* The file that a session which receives content has open is in the session's
\* folder, unless it is in an exempt one; while the session's folder is not
\* exempt, it still is the file of some name there.
WritingAt(s) ==
    /\ link[s] # None => /\ pc[s] = "content"
                         /\ link[s][1] \notin Exempt => link[s][1] = folderdir[s]
    /\ pc[s] = "content" /\ folderdir[s] \notin Exempt =>
           \E f \in File : link[s] = <<folderdir[s], f>> /\ store[folderdir[s]][f] = "part"

Writing == \A s \in Session : WritingAt(s)

\* The steps that write neither the store nor a link: the session was not and
\* is not receiving content, or it stays where it is.
Quiet(s) ==
    /\ store' = store /\ link' = link
    /\ \/ pc[s] # "content" /\ pc'[s] # "content"
       \/ pc'[s] = pc[s] /\ folderdir'[s] = folderdir[s]

LEMMA QuietSteps ==
    ASSUME TypeOK, NEW s \in Session, SessionStep(s)
    PROVE  \/ Quiet(s) \/ ReadFails(s) \/ UploadMetadata(s) \/ UploadContent(s)
           \/ RenameRequest(s) \/ DeleteRequest(s)
<1> USE DEF TypeOK, Quiet
<1>0. ASSUME Return(s) PROVE pc'[s] = "option"
  BY <1>0 DEF Return
<1>1. CASE Accept(s) \/ Disconnect(s) \/ HandlerEnds(s)
  BY <1>1 DEF Accept, Disconnect, HandlerEnds, shared
<1>2. CASE NextCommand(s)
  BY <1>2 DEF NextCommand, AccountCommand, RefusedCommand, ListCommand, DownloadCommand,
              FolderCommand, Command, Enter, shared
<1>3. CASE FindLock(s) \/ InsertLock(s) \/ LockFolder(s)
  BY <1>3 DEF FindLock, InsertLock, LockFolder
<1>4. CASE UploadMarker(s) \/ ListFolder(s) \/ DownloadName(s) \/ DownloadAck(s) \/ DownloadSend(s)
  BY <1>0, <1>4 DEF UploadMarker, ListFolder, DownloadName, DownloadAck, DownloadSend,
                    ReturnAnswered
<1>5. CASE AccountStep(s)
  <2>1. pc[s] \in AtAccount /\ store' = store /\ link' = link
    BY <1>5 DEF AccountStep, RecvUsername, CheckRegistration, InsertRow, LookupUser,
       VerifyPassword, StatDirectory, MakeDirectory, shared, AtAccount
  <2>2. pc'[s] # "content"
    BY <1>0, <1>5 DEF AccountStep, RecvUsername, CheckRegistration, InsertRow, LookupUser,
       VerifyPassword, StatDirectory, MakeDirectory, AccountDone, ReturnAnswered, ReturnSilently
  <2> QED
    BY <2>1, <2>2 DEF AtAccount
<1> QED
  BY <1>1, <1>2, <1>3, <1>4, <1>5 DEF SessionStep, HandlerStep, FolderStep

LEMMA ExemptGrows ==
    ASSUME NEW s \in Session, SessionStep(s)
    PROVE  breached \subseteq breached' /\ reached \subseteq reached'
  BY DEF SessionStep, HandlerStep, AccountStep, FolderStep, NextCommand, Accept,
     Disconnect, HandlerEnds, AccountCommand, RefusedCommand, ListCommand, DownloadCommand,
     FolderCommand, Command, ReadFails, RecvUsername, CheckRegistration, InsertRow,
     LookupUser, VerifyPassword, StatDirectory, MakeDirectory, FindLock, InsertLock,
     LockFolder, UploadMetadata, UploadContent, UploadMarker, RenameRequest, DeleteRequest,
     ListFolder, DownloadName, DownloadAck, DownloadSend, shared

\* What a rename or delete does to the folders of D, while there is an upload
\* in one of them, it does as the session of the only one, or reaches them.
LEMMA OwnOrReached ==
    ASSUME NEW s \in Session, NEW t \in Session, NEW D \in SUBSET Folder,
           link[t] \in D \X File
    PROVE  D = {folderdir[s]} \/ ReachedFrom(s, D) = D
  BY DEF ReachedFrom

\* A rename or delete spares the uploads of the other folders, unless it
\* reaches them.
LEMMA RequestSpares ==
    ASSUME TypeOK, NEW s \in Session, NEW t \in Session, NEW d \in Folder, NEW f \in File,
           RenameRequest(s) \/ DeleteRequest(s),
           link[t] = <<d, f>>, d # folderdir[s], d \notin reached'
    PROVE  link'[t] = <<d, f>> /\ store'[d][f] = store[d][f]
<1> DEFINE Spared == link'[t] = <<d, f>> /\ store'[d][f] = store[d][f]
<1>0. link[t] # None
  BY ServerAssumption DEF ServerAssumption
<1>1. ASSUME NEW D \in SUBSET Folder, reached' = reached \cup ReachedFrom(s, D)
      PROVE  d \notin D
  BY <1>1, OwnOrReached
<1>2. ASSUME NEW e \in Entry, NEW g \in Entry, Rename(e, g),
             reached' = reached \cup ReachedFrom(s, {e[1], g[1]})
      PROVE  Spared
  <2>1. d \notin {e[1], g[1]}
    BY <1>1, <1>2, EntryParts
  <2>2. e # <<d, f>> /\ g # <<d, f>>
    BY <2>1, EntryParts
  <2>3. link'[t] = <<d, f>>
    BY <1>2, <2>2 DEF Rename
  <2>4. store'[d][f] = store[d][f]
    BY <1>2, <2>2 DEF Rename
  <2> QED
    BY <2>3, <2>4
<1>3. ASSUME NEW n \in GzName, NEW m \in GzName, RenameFolder(n, m),
             reached' = reached \cup ReachedFrom(s, {n, m})
      PROVE  Spared
  <2>1. d \notin {n, m} /\ n \in Folder /\ m \in Folder
    BY <1>1, <1>3, ServerAssumption DEF ServerAssumption
  <2> QED
    BY <1>3, <2>1 DEF RenameFolder, TypeOK
<1>4. ASSUME NEW e \in Entry, Remove(e), reached' = reached \cup ReachedFrom(s, {e[1]})
      PROVE  Spared
  <2>1. d # e[1] /\ e[1] \in Folder /\ e # <<d, f>>
    BY <1>1, <1>4, EntryParts
  <2> QED
    BY <1>4, <2>1 DEF Remove, TypeOK
<1> QED
  BY <1>2, <1>3, <1>4 DEF RenameRequest, DeleteRequest, RemoveFolder

\* The file that an upload writes changes its folder only for one that is reached.
LEMMA RequestLinks ==
    ASSUME TypeOK, NEW s \in Session, NEW t \in Session, RenameRequest(s) \/ DeleteRequest(s)
    PROVE  \/ link'[t] = None
           \/ link'[t] = link[t]
           \/ link[t] # None /\ (link'[t][1] = link[t][1] \/ link'[t][1] \in reached')
<1> DEFINE Goal == \/ link'[t] = None
                   \/ link'[t] = link[t]
                   \/ link[t] # None /\ (link'[t][1] = link[t][1] \/ link'[t][1] \in reached')
<1>1. ASSUME NEW e \in Entry, NEW g \in Entry, Rename(e, g),
             reached' = reached \cup ReachedFrom(s, {e[1], g[1]})
      PROVE  Goal
  <2>1. CASE link[t] = e /\ link[t] # g
    <3>1. link'[t] = g /\ link[t] # None /\ link[t] \in {e[1], g[1]} \X File
      BY <1>1, <2>1, EntryParts DEF Rename
    <3>2. {e[1], g[1]} \in SUBSET Folder
      BY EntryParts
    <3>3. e[1] = g[1] \/ g[1] \in reached'
      BY <1>1, <3>1, <3>2, OwnOrReached
    <3> QED
      BY <2>1, <3>1, <3>3
  <2>2. CASE ~(link[t] = e /\ link[t] # g)
    BY <1>1, <2>2 DEF Rename
  <2> QED
    BY <2>1, <2>2
<1>2. ASSUME NEW n \in GzName, NEW m \in GzName, n # m, RenameFolder(n, m),
             reached' = reached \cup ReachedFrom(s, {n, m})
      PROVE  Goal
  <2>1. CASE link[t] \in {n} \X File
    <3>1. link'[t] = <<m, link[t][2]>> /\ link[t] # None
      BY <1>2, <2>1, ServerAssumption DEF RenameFolder, ServerAssumption
    <3>2. {n, m} \in SUBSET Folder /\ link[t] \in {n, m} \X File
      BY <2>1, ServerAssumption DEF ServerAssumption
    <3>3. m \in reached'
      BY <1>2, <3>2, OwnOrReached
    <3> QED
      BY <3>1, <3>3
  <2>2. CASE link[t] \notin {n} \X File
    BY <1>2, <2>2 DEF RenameFolder
  <2> QED
    BY <2>1, <2>2
<1>3. ASSUME NEW e \in Entry, Remove(e) PROVE Goal
  BY <1>3 DEF Remove
<1> QED
  BY <1>1, <1>2, <1>3 DEF RenameRequest, DeleteRequest

FileStep(s) == UploadMetadata(s) \/ UploadContent(s) \/ RenameRequest(s) \/ DeleteRequest(s)

\* The steps of an upload touch the files and the links of no other session,
\* unless that one works in the same folder or in an exempt one.
LEMMA UploadSpares ==
    ASSUME TypeOK, NEW s \in Session, NEW t \in Session, t # s, WritingAt(s),
           folderdir[s] \in Name, UploadMetadata(s) \/ UploadContent(s)
    PROVE  /\ link'[t] = link[t]
           /\ \A d \in Folder, f \in File :
                  d # folderdir[s] /\ d \notin Exempt => store'[d][f] = store[d][f]
<1>1. link'[t] = link[t]
  BY DEF UploadMetadata, UploadContent, TypeOK
<1> SUFFICES ASSUME NEW d \in Folder, NEW f \in File, d # folderdir[s], d \notin Exempt
             PROVE  store'[d][f] = store[d][f]
  BY <1>1
<1>2. CASE UploadMetadata(s)
  BY <1>2, ServerAssumption DEF UploadMetadata, TypeOK, ServerAssumption
<1>3. CASE UploadContent(s)
  <2>1. link[s] # <<d, f>>
    BY ServerAssumption DEF WritingAt, ServerAssumption
  <2> QED
    BY <1>3, <2>1 DEF UploadContent
<1> QED
  BY <1>2, <1>3

\* An upload of another session goes on undisturbed, unless its folder is exempt.
LEMMA Undisturbed ==
    ASSUME TypeOK, FolderExclusive, NEW s \in Session, NEW t \in Session, t # s,
           WritingAt(s), WritingAt(t), Frame(s), FileStep(s),
           breached \subseteq breached', reached \subseteq reached',
           pc[s] \in InLock, folderdir[s] \in Name,
           pc[t] = "content" => folderdir[t] \in Name
    PROVE  WritingAt(t)'
<1> USE DEF Exempt
<1>0. pc'[t] = pc[t] /\ folderdir'[t] = folderdir[t]
  BY DEF Frame
<1>1. ASSUME link'[t] # None
      PROVE  pc'[t] = "content" /\ (link'[t][1] \notin Exempt' => link'[t][1] = folderdir'[t])
  <2>1. \/ link'[t] = link[t]
        \/ link[t] # None /\ (link'[t][1] = link[t][1] \/ link'[t][1] \in reached')
    BY <1>1, RequestLinks, UploadSpares DEF FileStep
  <2> QED
    BY <1>0, <1>1, <2>1 DEF WritingAt
<1>2. ASSUME pc'[t] = "content", folderdir'[t] \notin Exempt'
      PROVE  \E f \in File : link'[t] = <<folderdir'[t], f>> /\ store'[folderdir'[t]][f] = "part"
  <2>1. PICK f \in File : link[t] = <<folderdir[t], f>> /\ store[folderdir[t]][f] = "part"
    BY <1>0, <1>2 DEF WritingAt
  <2>2. folderdir[t] # folderdir[s]
    BY <1>0, <1>2 DEF FolderExclusive, InLock
  <2>3. folderdir[t] \in Folder
    BY <1>0, <1>2, ServerAssumption DEF ServerAssumption
  <2>4. link'[t] = <<folderdir[t], f>> /\ store'[folderdir[t]][f] = store[folderdir[t]][f]
    <3>1. CASE RenameRequest(s) \/ DeleteRequest(s)
      BY <1>0, <1>2, <2>1, <2>2, <2>3, <3>1, RequestSpares
    <3>2. CASE UploadMetadata(s) \/ UploadContent(s)
      BY <1>0, <1>2, <2>1, <2>2, <2>3, <3>2, UploadSpares
    <3> QED
      BY <3>1, <3>2 DEF FileStep
  <2> QED
    BY <1>0, <2>1, <2>4
<1> QED
  BY <1>1, <1>2 DEF WritingAt

LEMMA OpenedUpload ==
    ASSUME TypeOK, FolderExclusive, Writing, NEW s \in Session, folderdir[s] \in Name,
           UploadMetadata(s), ~Return(s)
    PROVE  WritingAt(s)'
<1> USE DEF Exempt
<1>1. PICK f \in File :
          /\ store' = [store EXCEPT ![folderdir[s]][f] =
                          IF Writers(<<folderdir[s], f>>) = {} THEN "part" ELSE "mixed"]
          /\ link' = [link EXCEPT ![s] = <<folderdir[s], f>>]
          /\ pc' = [pc EXCEPT ![s] = "content"]
  BY DEF UploadMetadata, ReturnAnswered, ReturnSilently
<1>2. pc[s] = "metadata" /\ folderdir' = folderdir /\ breached' = breached /\ reached' = reached
  BY DEF UploadMetadata
<1>3. folderdir[s] \notin Exempt => Writers(<<folderdir[s], f>>) = {}
  <2> SUFFICES ASSUME folderdir[s] \notin Exempt,
                      NEW u \in Session, link[u] = <<folderdir[s], f>>
               PROVE  FALSE
    BY DEF Writers
  <2>1. link[u] # None
    BY ServerAssumption DEF ServerAssumption
  <2>2. pc[u] = "content" /\ folderdir[u] = folderdir[s]
    BY <2>1 DEF Writing, WritingAt
  <2>3. u = s
    BY <1>2, <2>2 DEF FolderExclusive, InLock
  <2> QED
    BY <1>2, <2>2, <2>3
<1>4. folderdir[s] \notin Exempt => store'[folderdir[s]][f] = "part"
  <2>1. folderdir[s] \in Folder
    BY ServerAssumption DEF ServerAssumption
  <2>2. ASSUME folderdir[s] \notin Exempt PROVE store' = [store EXCEPT ![folderdir[s]][f] = "part"]
    BY <1>1, <1>3, <2>2
  <2> QED
    BY <2>1, <2>2 DEF TypeOK
<1>5. link'[s] = <<folderdir[s], f>> /\ pc'[s] = "content"
  BY <1>1 DEF TypeOK
<1> QED
  BY <1>2, <1>3, <1>4, <1>5 DEF WritingAt

LEMMA WritingNext ==
    TypeOK /\ Progress /\ Logged /\ Locking /\ FolderExclusive /\ Writing /\ [Next]_vars
        => Writing'
<1> SUFFICES ASSUME TypeOK, Progress, Logged, Locking, FolderExclusive, Writing, [Next]_vars
             PROVE  Writing'
  OBVIOUS
<1>1. ASSUME NEW s \in Session, SessionStep(s), NEW t \in Session PROVE WritingAt(t)'
  <2>0. /\ WritingAt(t) /\ WritingAt(s) /\ Frame(s)
        /\ breached \subseteq breached' /\ reached \subseteq reached'
    BY <1>1, StepFrame, ExemptGrows DEF Writing
  <2>n. pc[t] = "content" => folderdir[t] \in Name
    BY DEF Logged, LoggedAt, AtFolder, InLock, FileOptions
  <2>m. pc[s] \in InLock => folderdir[s] \in Name
    BY DEF Logged, LoggedAt, AtFolder, FileOptions
  <2>r. ASSUME Return(s) PROVE pc'[s] = "option"
    BY <2>r DEF Return, TypeOK
  <2>1. CASE Quiet(s)
    <3>1. CASE t = s
      BY <2>0, <2>1, <3>1 DEF Quiet, WritingAt, Exempt
    <3>2. CASE t # s
      BY <2>0, <2>1, <3>2 DEF Quiet, Frame, WritingAt, Exempt
    <3> QED
      BY <3>1, <3>2
  <2>2. CASE ReadFails(s)
    <3>1. pc'[s] = "option" /\ link' = [link EXCEPT ![s] = None] /\ store' = store
      BY <2>2, <2>r DEF ReadFails, ReturnAnswered
    <3>2. CASE t = s
      BY <3>1, <3>2 DEF WritingAt, TypeOK
    <3>3. CASE t # s
      BY <2>0, <3>1, <3>3 DEF Frame, WritingAt, TypeOK, Exempt
    <3> QED
      BY <3>2, <3>3
  <2>3. CASE FileStep(s) /\ t # s
    <3>1. pc[s] \in InLock /\ folderdir[s] \in Name
      BY <2>3, <2>m DEF FileStep, UploadMetadata, UploadContent, RenameRequest, DeleteRequest, InLock
    <3> QED
      BY <2>0, <2>3, <2>n, <3>1, Undisturbed
  <2>4. CASE t = s /\ UploadMetadata(s)
    <3>0. pc[s] = "metadata" /\ folderdir[s] \in Name /\ link[s] = None
      BY <2>0, <2>4, <2>m DEF UploadMetadata, InLock, WritingAt
    <3>1. CASE Return(s)
      <4>1. pc'[s] = "option"
        BY <3>1, <2>r
      <4>2. pc'[s] = "content" \/ link' = link
        BY <2>4 DEF UploadMetadata, TypeOK
      <4> QED
        BY <2>4, <3>0, <4>1, <4>2 DEF WritingAt
    <3>2. CASE ~Return(s)
      BY <2>4, <3>0, <3>2, OpenedUpload
    <3> QED
      BY <3>1, <3>2
  <2>5. CASE t = s /\ UploadContent(s)
    <3>1. link'[s] = None /\ pc'[s] # "content"
      BY <2>5, <2>r DEF UploadContent, ReturnAnswered, TypeOK
    <3> QED
      BY <2>5, <3>1 DEF WritingAt
  <2>6. CASE t = s /\ (RenameRequest(s) \/ DeleteRequest(s))
    <3>1. pc[s] = "metadata" /\ pc'[s] = "option" /\ link[s] = None
      BY <2>0, <2>6, <2>r DEF RenameRequest, DeleteRequest, ReturnAnswered, WritingAt
    <3>2. link'[s] = None
      BY <2>6, <3>1, RequestLinks
    <3> QED
      BY <2>6, <3>1, <3>2 DEF WritingAt
  <2> QED
    BY <1>1, <2>1, <2>2, <2>3, <2>4, <2>5, <2>6, QuietSteps DEF FileStep
<1>2. CASE Crash
  BY <1>2, ServerAssumption DEF Crash, Writing, WritingAt, ServerAssumption
<1>3. CASE UNCHANGED vars
  BY <1>3 DEF vars, session, shared, Writing, WritingAt, Exempt
<1> QED
  BY <1>1, <1>2, <1>3 DEF Next, SessionStep, Writing

LEMMA WritingKept == Spec => []Writing
<1>1. Init => Writing
  BY ServerAssumption DEF Init, Writing, WritingAt, ServerAssumption
<1>2. Spec => []FolderExclusive
  BY FoldersAreExclusive
<1> QED
  BY <1>1, <1>2, LocksKept, WritingNext, PTL DEF Spec

\* The file an upload writes keeps its name and nobody else's content gets
\* into it, in every folder that is neither breached nor reached from another one.
THEOREM UploadsAreIntact == Spec => []UploadIntact
<1>1. Writing => UploadIntact
  BY DEF Writing, WritingAt, UploadIntact, Exempt
<1> QED
  BY <1>1, WritingKept, PTL
-----------------------------------------------------------------------------
(* Accounts *)

\* The steps in which a session can take a user name or be told of an outcome
\* after its row was inserted or its password checked.
LEMMA OutcomeSteps ==
    ASSUME TypeOK, Progress, NEW s \in Session, SessionStep(s),
           ~StatDirectory(s), ~MakeDirectory(s)
    PROVE  /\ username'[s] = username[s] \/ username'[s] = None
           /\ ~(pc[s] \in {"ensureDir", "mkdir"} /\ pc'[s] = "option")
<1> USE DEF TypeOK
<1>1. CASE Accept(s) \/ Disconnect(s) \/ HandlerEnds(s)
  BY <1>1 DEF Accept, Disconnect, HandlerEnds
<1>2. CASE NextCommand(s)
  BY <1>2 DEF NextCommand, AccountCommand, RefusedCommand, ListCommand, DownloadCommand,
              FolderCommand, Command
<1>3. CASE ReadFails(s)
  BY <1>3 DEF ReadFails, AtRead, InLock
<1>4. CASE AccountStep(s)
  BY <1>4 DEF AccountStep, RecvUsername, CheckRegistration, InsertRow, LookupUser, VerifyPassword
<1>5. CASE FolderStep(s)
  BY <1>5 DEF FolderStep, FindLock, InsertLock, LockFolder, UploadMetadata, UploadContent,
     UploadMarker, RenameRequest, DeleteRequest, ListFolder, DownloadName, DownloadAck, DownloadSend
<1> QED
  BY <1>1, <1>2, <1>3, <1>4, <1>5 DEF SessionStep, HandlerStep

\* In the two steps that ensureDirectory ends with, the row is there and holds
\* the hash of the session's password; unless the peer gets no answer, so is
\* the directory.
LEMMA DirectorySteps ==
    ASSUME TypeOK, Progress, NEW s \in Session, StatDirectory(s) \/ MakeDirectory(s)
    PROVE  /\ users[user[s]] = pass[s]
           /\ \/ user[s] \in dirs'
              \/ pc'[s] = "mkdir" /\ username' = username
              \/ unanswered'[s] = op[s] /\ username' = username
<1>1. pc[s] \in {"ensureDir", "mkdir"}
  BY DEF StatDirectory, MakeDirectory
<1>2. users[user[s]] = pass[s]
  BY <1>1 DEF Progress, ProgressAt
<1>3. CASE StatDirectory(s)
  BY <1>2, <1>3 DEF StatDirectory, TypeOK
<1>4. CASE MakeDirectory(s)
  BY <1>2, <1>4 DEF MakeDirectory, ReturnSilently, TypeOK
<1> QED
  BY <1>3, <1>4

\* A user name is taken only with the password of its row, and an OK of
\* registerUser means that the row and the directory are the peer's own.
THEOREM AnswersMeanAccounts == Spec => AnswerMeansAccount
<1> DEFINE Outcome(s) ==
        \/ username'[s] # username[s] /\ username'[s] # None
        \/ op[s] = "register" /\ pc[s] \in {"ensureDir", "mkdir"}
              /\ pc'[s] = "option" /\ unanswered'[s] = None
           Own(s) == users[user[s]] = pass[s] /\ user[s] \in dirs'
<1>1. ASSUME TypeOK, Progress, [Next]_vars, NEW t \in Session, Outcome(t), session' # session
      PROVE  Own(t)
  <2>1. ASSUME NEW s \in Session, SessionStep(s) PROVE Own(t)
    <3>1. t = s
      BY <1>1, <2>1, StepFrame DEF Frame
    <3>2. StatDirectory(s) \/ MakeDirectory(s)
      BY <1>1, <2>1, <3>1, OutcomeSteps
    <3> QED
      BY <1>1, <3>1, <3>2, DirectorySteps, ServerAssumption DEF ServerAssumption, AccountOptions
  <2>2. CASE Crash
    <3>1. username'[t] = None /\ pc'[t] = "closed"
      BY <2>2 DEF Crash
    <3> QED
      BY <1>1, <3>1
  <2>3. CASE UNCHANGED vars
    BY <1>1, <2>3 DEF vars
  <2> QED
    BY <1>1, <2>1, <2>2, <2>3 DEF Next, SessionStep
<1>2. TypeOK /\ Progress /\ [Next]_vars =>
        [\A s \in Session :
            \/ username'[s] # username[s] /\ username'[s] # None
            \/ op[s] = "register" /\ pc[s] \in {"ensureDir", "mkdir"}
                  /\ pc'[s] = "option" /\ unanswered'[s] = None
            => users[user[s]] = pass[s] /\ user[s] \in dirs']_session
  BY <1>1
<1> QED
  BY <1>2, Progressing, PTL DEF Spec, AnswerMeansAccount
=============================================================================
