---------------------------- MODULE ServiceProofs ----------------------------
(***************************************************************************)
(* What the sessions of Server amount to together: one account service,    *)
(* folders in which one session works at a time, and the circumstances     *)
(* under which the code breaks what it is meant to keep.                   *)
(***************************************************************************)
EXTENDS ServerProofs

-----------------------------------------------------------------------------
(* The server implements Accounts *)

\* The places where a session has presented a name and a password.
AtOutcome == {"insertRow", "getHash", "ensureDir", "mkdir"}

\* The password is remembered as long as its outcome is open, and only a valid
\* name with a valid password gets as far as the INSERT.
PresentedAt(s) ==
    /\ pass[s] # None <=> pc[s] \in AtOutcome
    /\ pc[s] = "insertRow" => user[s] \in ValidName /\ pass[s] \in ValidPassword

Presented == \A s \in Session : PresentedAt(s)

\* The steps on files have no part in the account service, but for what they do
\* to folders that have the names of files.
LEMMA FolderStepsAside ==
    ASSUME TypeOK, NEW s \in Session, FolderStep(s)
    PROVE  /\ pc[s] \notin AtAccount
           /\ UNCHANGED <<users, isLoggedin, username, folderdir>>
           /\ dirs' \subseteq Name /\ dirs' \ GzName = dirs \ GzName
           /\ \/ Return(s)
              \/ pc'[s] \notin AtAccount \cup {"closed", "option"}
                    /\ UNCHANGED <<op, user, pass>>
<1> USE DEF TypeOK, AtAccount
<1>1. CASE FindLock(s) \/ InsertLock(s) \/ LockFolder(s)
  BY <1>1 DEF FindLock, InsertLock, LockFolder
<1>2. CASE UploadMetadata(s)
  BY <1>2 DEF UploadMetadata, ReturnAnswered, ReturnSilently
<1>3. CASE UploadContent(s) \/ UploadMarker(s)
  BY <1>3 DEF UploadContent, UploadMarker, ReturnAnswered
<1>4. CASE RenameRequest(s) \/ DeleteRequest(s)
  <2>0. GzName \subseteq Name
    BY ServerAssumption DEF ServerAssumption
  <2>1. \/ dirs' = dirs
        \/ \E n, m \in GzName : dirs' = (dirs \ {n}) \cup {m}
        \/ \E n \in GzName : dirs' = dirs \ {n}
    BY <1>4 DEF RenameRequest, DeleteRequest, RenameFolder, RemoveFolder
  <2>2. dirs' \subseteq Name /\ dirs' \ GzName = dirs \ GzName
    BY <2>0, <2>1
  <2> QED
    BY <1>4, <2>2 DEF RenameRequest, DeleteRequest, ReturnAnswered
<1>5. CASE ListFolder(s) \/ DownloadName(s) \/ DownloadAck(s) \/ DownloadSend(s)
  BY <1>5 DEF ListFolder, DownloadName, DownloadAck, DownloadSend, ReturnAnswered
<1> QED
  BY <1>1, <1>2, <1>3, <1>4, <1>5 DEF FolderStep

\* A handler that returns has forgotten its password.
LEMMA ReturnPresented ==
    ASSUME TypeOK, NEW s \in Session, Return(s)
    PROVE  PresentedAt(s)' /\ pass'[s] = None
  BY DEF TypeOK, Return, PresentedAt, AtOutcome

LEMMA ActorPresented ==
    ASSUME TypeOK, Progress, Presented, NEW s \in Session, SessionStep(s)
    PROVE  PresentedAt(s)'
<1>0. PresentedAt(s) /\ ProgressAt(s)
  BY DEF Presented, Progress
<1> USE <1>0, ServerAssumption DEF ServerAssumption, TypeOK
<1>1. CASE Return(s)
  BY <1>1, ReturnPresented
<1>2. CASE Accept(s) \/ Disconnect(s) \/ HandlerEnds(s)
  BY <1>2 DEF Accept, Disconnect, HandlerEnds, PresentedAt, AtOutcome
<1>3. CASE NextCommand(s)
  BY <1>3 DEF NextCommand, AccountCommand, RefusedCommand, ListCommand,
     DownloadCommand, FolderCommand, Command, Enter, PresentedAt, AtOutcome
<1>4. CASE ~Return(s) /\ FolderStep(s)
  BY <1>4, FolderStepsAside DEF AtAccount, PresentedAt, AtOutcome
<1>5. CASE ~Return(s) /\ AccountStep(s)
  <2> USE DEF PresentedAt, AtOutcome
  <2>1. CASE RecvUsername(s)
    BY <2>1 DEF RecvUsername
  <2>2. CASE CheckRegistration(s) \/ LookupUser(s)
    BY <1>5, <2>2 DEF CheckRegistration, LookupUser, ReturnAnswered
  <2>3. CASE InsertRow(s)
    BY <1>5, <2>3 DEF InsertRow, ReturnSilently
  <2>4. CASE VerifyPassword(s)
    BY <1>5, <2>4 DEF VerifyPassword, ReturnAnswered
  <2>5. CASE StatDirectory(s) \/ MakeDirectory(s)
    BY <1>5, <2>5 DEF StatDirectory, MakeDirectory, AccountDone, ReturnAnswered, ReturnSilently
  <2> QED
    BY <1>5, <2>1, <2>2, <2>3, <2>4, <2>5 DEF AccountStep
<1> QED
  BY <1>1, <1>2, <1>3, <1>4, <1>5 DEF SessionStep, HandlerStep, ReadFails, ReturnAnswered

LEMMA PresentedNext ==
    TypeOK /\ Progress /\ Presented /\ [Next]_vars => Presented'
<1> SUFFICES ASSUME TypeOK, Progress, Presented, [Next]_vars PROVE Presented'
  OBVIOUS
<1>1. ASSUME NEW s \in Session, SessionStep(s), NEW t \in Session PROVE PresentedAt(t)'
  <2>1. CASE t # s
    BY <1>1, <2>1, StepFrame DEF Frame, Presented, PresentedAt
  <2>2. CASE t = s
    BY <1>1, <2>2, ActorPresented
  <2> QED
    BY <2>1, <2>2
<1>2. CASE Crash
  BY <1>2 DEF Crash, Presented, PresentedAt, AtOutcome
<1>3. CASE UNCHANGED vars
  BY <1>3 DEF vars, session, Presented, PresentedAt
<1> QED
  BY <1>1, <1>2, <1>3 DEF Next, SessionStep, Presented

LEMMA PresentedInit == Init => Presented
  BY DEF Init, Presented, PresentedAt, AtOutcome

\* What a session has presented and the name it is logged in under, as Accounts
\* sees them.
Tried(s)    == IF pass[s] = None THEN None ELSE <<user[s], pass[s]>>
LoggedAs(s) == IF isLoggedin[s] THEN username[s] ELSE None

\* A step of one session changes these two of that session only.
LEMMA StepTables ==
    ASSUME TypeOK, NEW s \in Session, SessionStep(s)
    PROVE  /\ [t \in Session |-> Tried(t)]' = [[t \in Session |-> Tried(t)] EXCEPT ![s] = Tried(s)']
           /\ [t \in Session |-> LoggedAs(t)]' =
                  [[t \in Session |-> LoggedAs(t)] EXCEPT ![s] = LoggedAs(s)']
  BY StepFrame DEF Frame, Tried, LoggedAs

\* What a step of a session does to the service.
Aside(s)    == UNCHANGED <<users, dirs>> /\ Tried(s)' = Tried(s) /\ LoggedAs(s)' = LoggedAs(s)
GivesUp(s)  == UNCHANGED <<users, dirs>> /\ Tried(s)' = None /\ LoggedAs(s)' = LoggedAs(s)
Leaves(s)   == UNCHANGED <<users, dirs>> /\ Tried(s)' = Tried(s) /\ LoggedAs(s)' = None
Arranges(s) == /\ users' = users /\ dirs' \subseteq Name /\ dirs' \ GzName = dirs \ GzName
               /\ Tried(s)' = Tried(s) /\ LoggedAs(s)' = LoggedAs(s)
Presents(s) == /\ UNCHANGED <<users, dirs>> /\ LoggedAs(s)' = LoggedAs(s)
               /\ Tried(s) = None
               /\ \E n \in Name, p \in Password : Tried(s)' = <<n, p>>
Inserts(s)  == /\ dirs' = dirs /\ Tried(s)' = Tried(s) /\ LoggedAs(s)' = LoggedAs(s)
               /\ \E n \in ValidName, p \in ValidPassword :
                    /\ Tried(s) = <<n, p>>
                    /\ users[n] = None
                    /\ users' = [users EXCEPT ![n] = p]
Settles(s)  == /\ users' = users /\ Tried(s)' = None
               /\ \E n \in Name, p \in Password :
                    /\ Tried(s) = <<n, p>>
                    /\ users[n] = p
                    /\ dirs' = dirs \cup {n}
                    /\ LoggedAs(s)' \in {LoggedAs(s), n}

Served(s) == \/ Aside(s) \/ GivesUp(s) \/ Leaves(s) \/ Arranges(s)
             \/ Presents(s) \/ Inserts(s) \/ Settles(s)

\* A step that is one of these is a step of Accounts.
LEMMA ServedSteps ==
    ASSUME TypeOK, NEW s \in Session, SessionStep(s), Served(s)
    PROVE  [Service!Next]_(Service!vars)
<1>0. /\ [t \in Session |-> Tried(t)]' = [[t \in Session |-> Tried(t)] EXCEPT ![s] = Tried(s)']
      /\ [t \in Session |-> LoggedAs(t)]' =
                  [[t \in Session |-> LoggedAs(t)] EXCEPT ![s] = LoggedAs(s)']
      /\ [t \in Session |-> Tried(t)][s] = Tried(s)
      /\ [t \in Session |-> LoggedAs(t)][s] = LoggedAs(s)
  BY StepTables
<1>e. /\ Tried(s)' = Tried(s) => [t \in Session |-> Tried(t)]' = [t \in Session |-> Tried(t)]
      /\ LoggedAs(s)' = LoggedAs(s) =>
            [t \in Session |-> LoggedAs(t)]' = [t \in Session |-> LoggedAs(t)]
  BY <1>0
<1> USE <1>0, <1>e DEF Service!Next, Service!vars
<1>1. CASE Aside(s)
  BY <1>1 DEF Aside, Tried, LoggedAs
<1>2. CASE GivesUp(s)
  <2>1. Service!Withdraw(s)
    BY <1>2 DEF GivesUp, Service!Withdraw, Tried, LoggedAs
  <2> QED
    BY <2>1
<1>3. CASE Leaves(s)
  <2>1. Service!LogOut(s)
    BY <1>3 DEF Leaves, Service!LogOut, Tried, LoggedAs
  <2> QED
    BY <2>1
<1>4. CASE Presents(s)
  <2>1. PICK n \in Name, p \in Password : Tried(s)' = <<n, p>>
    BY <1>4 DEF Presents
  <2>2. Service!Present(s, n, p)
    BY <1>4, <2>1 DEF Presents, Service!Present, Tried, LoggedAs
  <2> QED
    BY <2>2
<1>5. CASE Inserts(s)
  <2>1. PICK n \in ValidName, p \in ValidPassword :
            Tried(s) = <<n, p>> /\ users[n] = None /\ users' = [users EXCEPT ![n] = p]
    BY <1>5 DEF Inserts
  <2>2. Service!Register(s, n, p)
    BY <1>5, <2>1 DEF Inserts, Service!Register, Tried, LoggedAs
  <2> QED
    BY <2>2, ServerAssumption DEF ServerAssumption
<1>6. CASE Settles(s)
  <2>1. PICK n \in Name, p \in Password :
            /\ Tried(s) = <<n, p>> /\ users[n] = p /\ dirs' = dirs \cup {n}
            /\ LoggedAs(s)' \in {LoggedAs(s), n}
    BY <1>6 DEF Settles
  <2>2. Service!Settle(s, n, p)
    BY <1>6, <2>1 DEF Settles, Service!Settle, Tried, LoggedAs
  <2>3. CASE LoggedAs(s)' = LoggedAs(s)
    <3>1. Service!Registered(s, n, p)
      BY <2>2, <2>3 DEF Service!Registered, LoggedAs
    <3> QED
      BY <3>1
  <2>4. CASE LoggedAs(s)' = n
    <3>1. Service!LogIn(s, n, p)
      BY <2>2, <2>4 DEF Service!LogIn, LoggedAs
    <3> QED
      BY <3>1
  <2> QED
    BY <2>1, <2>3, <2>4
<1>7. CASE Arranges(s)
  <2>1. Service!Rearrange
    BY <1>7 DEF Arranges, Service!Rearrange, Tried, LoggedAs
  <2> QED
    BY <2>1
<1> QED
  BY <1>1, <1>2, <1>3, <1>4, <1>5, <1>6, <1>7 DEF Served

\* Every step of a session is one of these.
LEMMA SessionStepServed ==
    ASSUME TypeOK, Progress, Presented, NEW s \in Session, SessionStep(s)
    PROVE  Served(s)
<1>0. PresentedAt(s) /\ ProgressAt(s)
  BY DEF Presented, Progress
<1> USE <1>0, ServerAssumption DEF ServerAssumption, TypeOK
<1>r. ASSUME Return(s) PROVE Tried(s)' = None
  BY <1>r, ReturnPresented DEF Tried
<1>q. ASSUME Return(s), UNCHANGED <<users, dirs, isLoggedin, username>> PROVE Served(s)
  BY <1>r, <1>q DEF Served, GivesUp, LoggedAs
<1>1. CASE Accept(s) \/ Disconnect(s)
  BY <1>1 DEF Accept, Disconnect, shared, Served, Aside, Tried, LoggedAs
<1>2. CASE HandlerEnds(s)
  BY <1>2 DEF HandlerEnds, shared, Served, Leaves, Tried, LoggedAs
<1>3. CASE NextCommand(s)
  BY <1>3 DEF NextCommand, AccountCommand, RefusedCommand, ListCommand,
     DownloadCommand, FolderCommand, Command, shared, Served, Aside, Tried, LoggedAs
<1>4. CASE ReadFails(s)
  BY <1>4, <1>q DEF ReadFails, ReturnAnswered
<1>5. CASE FolderStep(s)
  <2>1. pass[s] = None /\ LoggedAs(s)' = LoggedAs(s)
    BY <1>5, FolderStepsAside DEF PresentedAt, AtOutcome, AtAccount, LoggedAs
  <2>2. Tried(s)' = Tried(s)
    BY <1>5, <1>r, <2>1, FolderStepsAside DEF Tried
  <2> QED
    BY <1>5, <2>1, <2>2, FolderStepsAside DEF Served, Arranges
<1>6. CASE AccountStep(s)
  <2>1. CASE RecvUsername(s)
    BY <2>1 DEF RecvUsername, shared, Served, Aside, Tried, LoggedAs, PresentedAt, AtOutcome
  <2>2. CASE CheckRegistration(s) \/ LookupUser(s)
    <3>1. UNCHANGED <<users, dirs, isLoggedin, username>> /\ pc[s] = "password"
      BY <2>2 DEF CheckRegistration, LookupUser
    <3>2. CASE ~Return(s)
      <4>1. PICK p \in Password : pass' = [pass EXCEPT ![s] = p] /\ user' = user
        BY <2>2, <3>2 DEF CheckRegistration, LookupUser, ReturnAnswered
      <4>2. user[s] \in Name /\ pass[s] = None
        BY <3>1 DEF PresentedAt, ProgressAt, AtOutcome, AtAccount
      <4>3. Tried(s) = None /\ Tried(s)' = <<user[s], p>> /\ LoggedAs(s)' = LoggedAs(s)
        BY <3>1, <4>1, <4>2 DEF Tried, LoggedAs
      <4> QED
        BY <3>1, <4>2, <4>3 DEF Served, Presents
    <3> QED
      BY <3>1, <3>2, <1>q
  <2>3. CASE InsertRow(s)
    <3>1. UNCHANGED <<dirs, isLoggedin, username>> /\ pc[s] = "insertRow"
      BY <2>3 DEF InsertRow
    <3>2. CASE ~Return(s)
      <4>1. /\ users[user[s]] = None /\ users' = [users EXCEPT ![user[s]] = pass[s]]
            /\ UNCHANGED <<user, pass>>
        BY <2>3, <3>2 DEF InsertRow, ReturnSilently
      <4>2. user[s] \in ValidName /\ pass[s] \in ValidPassword /\ Tried(s) = <<user[s], pass[s]>>
        BY <3>1 DEF PresentedAt, AtOutcome, Tried
      <4>3. Tried(s)' = Tried(s) /\ LoggedAs(s)' = LoggedAs(s)
        BY <3>1, <4>1 DEF Tried, LoggedAs
      <4> QED
        BY <3>1, <4>1, <4>2, <4>3 DEF Served, Inserts
    <3>3. CASE Return(s)
      <4>1. users' = users
        BY <2>3, <3>3 DEF InsertRow, Return
      <4> QED
        BY <3>1, <3>3, <4>1, <1>q
    <3> QED
      BY <3>2, <3>3
  <2>4. CASE VerifyPassword(s)
    <3>1. UNCHANGED <<users, dirs, isLoggedin, username>>
      BY <2>4 DEF VerifyPassword
    <3>2. CASE ~Return(s)
      BY <2>4, <3>1, <3>2 DEF VerifyPassword, ReturnAnswered, Served, Aside, Tried, LoggedAs
    <3> QED
      BY <3>1, <3>2, <1>q
  <2>5. CASE StatDirectory(s) \/ MakeDirectory(s)
    <3>0. /\ users' = users /\ users[user[s]] = pass[s]
          /\ user[s] \in Name /\ pass[s] \in Password /\ Tried(s) = <<user[s], pass[s]>>
      BY <2>5 DEF StatDirectory, MakeDirectory, PresentedAt, ProgressAt, AtOutcome, AtAccount, Tried
    <3>1. CASE AccountDone(s) /\ dirs' = dirs \cup {user[s]}
      <4>1. Return(s) /\ LoggedAs(s)' \in {LoggedAs(s), user[s]}
        BY <3>1 DEF AccountDone, ReturnAnswered, LoggedAs
      <4> QED
        BY <1>r, <3>0, <3>1, <4>1 DEF Served, Settles
    <3>2. CASE Return(s) /\ UNCHANGED <<dirs, isLoggedin, username>>
      BY <1>q, <3>0, <3>2
    <3>3. CASE UNCHANGED <<dirs, isLoggedin, username, user, pass>>
      BY <3>0, <3>3 DEF Served, Aside, Tried, LoggedAs
    <3>4. user[s] \in dirs => dirs = dirs \cup {user[s]}
      OBVIOUS
    <3> QED
      BY <2>5, <3>1, <3>2, <3>3, <3>4 DEF StatDirectory, MakeDirectory, ReturnSilently
  <2> QED
    BY <1>6, <2>1, <2>2, <2>3, <2>4, <2>5 DEF AccountStep
<1> QED
  BY <1>1, <1>2, <1>3, <1>4, <1>5, <1>6 DEF SessionStep, HandlerStep

\* The tables of registerUser and loginUser, however their checks interleave,
\* fail or are cut by a crash, behave like one account service in which a name
\* is taken once and its password opens it.
THEOREM ImplementsAccounts == Spec => IsAccountService
<1>1. Init => Service!Init
  BY DEF Init, Service!Init
<1>2. TypeOK /\ Progress /\ Presented /\ [Next]_vars => [Service!Next]_(Service!vars)
  <2> SUFFICES ASSUME TypeOK, Progress, Presented, [Next]_vars
               PROVE  [Service!Next]_(Service!vars)
    OBVIOUS
  <2>1. ASSUME NEW s \in Session, SessionStep(s) PROVE [Service!Next]_(Service!vars)
    BY <2>1, SessionStepServed, ServedSteps
  <2>2. CASE Crash
    <3>1. Service!Restart
      BY <2>2 DEF Crash, Service!Restart
    <3> QED
      BY <3>1 DEF Service!Next
  <2>3. CASE UNCHANGED vars
    BY <2>3 DEF vars, session, shared, Service!vars
  <2> QED
    BY <2>1, <2>2, <2>3 DEF Next, SessionStep
<1> QED
  BY <1>1, <1>2, Progressing, PresentedInit, PresentedNext, PTL
     DEF Spec, IsAccountService, Service!Spec
-----------------------------------------------------------------------------
(* Why a command can work in the folder of another user *)

\* No session that is logged in inserts the row of a further name, nor verifies
\* the password of a name whose folder is missing.
OneAccount ==
    \A s \in Session : isLoggedin[s] /\ pc[s] \in {"ensureDir", "mkdir"} =>
                           op[s] = "login" /\ pc[s] = "ensureDir"

OwnAt(s) ==
    isLoggedin[s] => \/ folderdir[s] = username[s]
                     \/ op[s] = "login" /\ pc[s] = "ensureDir"

Own == \A s \in Session : OwnAt(s)

LEMMA OwnNext ==
    TypeOK /\ Progress /\ Own /\ OneAccount /\ OneAccount' /\ [Next]_vars => Own'
<1> SUFFICES ASSUME TypeOK, Progress, Own, OneAccount, OneAccount', [Next]_vars PROVE Own'
  OBVIOUS
<1>1. ASSUME NEW s \in Session, SessionStep(s) PROVE OwnAt(s)'
  <2>0. OwnAt(s) /\ ProgressAt(s)
    BY DEF Own, Progress
  <2> USE <2>0, ServerAssumption DEF ServerAssumption, TypeOK
  <2>r. ASSUME Return(s), UNCHANGED <<isLoggedin, username, folderdir>>, pc[s] # "ensureDir"
        PROVE  OwnAt(s)'
    BY <2>r DEF OwnAt
  <2>1. CASE Accept(s) \/ Disconnect(s) \/ HandlerEnds(s)
    BY <2>1 DEF Accept, Disconnect, HandlerEnds, OwnAt
  <2>2. CASE NextCommand(s)
    BY <2>2 DEF NextCommand, AccountCommand, RefusedCommand, ListCommand,
       DownloadCommand, FolderCommand, Command, Enter, OwnAt
  <2>3. CASE ReadFails(s)
    BY <2>3, <2>r DEF ReadFails, ReturnAnswered, AtRead, InLock
  <2>4. CASE FolderStep(s)
    <3>1. /\ pc[s] # "ensureDir"
          /\ UNCHANGED <<isLoggedin, username, folderdir>>
      BY <2>4, FolderStepsAside DEF AtAccount
    <3> QED
      BY <3>1 DEF OwnAt
  <2>5. CASE AccountStep(s)
    <3>1. CASE RecvUsername(s)
      BY <3>1 DEF RecvUsername, OwnAt
    <3>2. CASE CheckRegistration(s) \/ LookupUser(s)
      BY <3>2 DEF CheckRegistration, LookupUser, OwnAt
    <3>3. CASE InsertRow(s)
      <4>1. CASE UNCHANGED folderdir
        BY <3>3, <4>1 DEF InsertRow, OwnAt
      <4>2. CASE pc' = [pc EXCEPT ![s] = "ensureDir"] /\ op' = op
        <5>1. pc'[s] = "ensureDir" /\ op'[s] = "register"
          BY <3>3, <4>2 DEF InsertRow, ProgressAt
        <5>2. ~isLoggedin'[s]
          BY <5>1 DEF OneAccount
        <5> QED
          BY <5>2 DEF OwnAt
      <4> QED
        BY <3>3, <4>1, <4>2 DEF InsertRow
    <3>4. CASE VerifyPassword(s)
      <4>1. CASE UNCHANGED folderdir
        BY <3>4, <4>1 DEF VerifyPassword, OwnAt
      <4>2. CASE pc' = [pc EXCEPT ![s] = "ensureDir"] /\ op' = op
        BY <3>4, <4>2 DEF VerifyPassword, ProgressAt, OwnAt
      <4> QED
        BY <3>4, <4>1, <4>2 DEF VerifyPassword
    <3>5. CASE StatDirectory(s) \/ MakeDirectory(s)
      <4>0. folderdir' = folderdir /\ folderdir[s] = user[s] /\ op[s] \in AccountOptions
        BY <3>5 DEF StatDirectory, MakeDirectory, ProgressAt, AtAccount
      <4>1. CASE AccountDone(s) /\ op[s] = "login"
        BY <4>0, <4>1 DEF AccountDone, OwnAt
      <4>2. CASE UNCHANGED <<isLoggedin, username>> /\ isLoggedin[s]
        <5>1. CASE MakeDirectory(s) \/ op[s] = "register"
          BY <3>5, <4>2, <5>1 DEF StatDirectory, MakeDirectory, OneAccount
        <5>2. CASE StatDirectory(s) /\ op[s] = "login"
          <6>1. pc'[s] = "mkdir" \/ AccountDone(s)
            BY <5>2 DEF StatDirectory
          <6> QED
            BY <4>1, <4>2, <5>2, <6>1 DEF OneAccount
        <5> QED
          BY <3>5, <4>0, <5>1, <5>2 DEF AccountOptions
      <4>3. CASE UNCHANGED <<isLoggedin, username>> /\ ~isLoggedin[s]
        BY <4>3 DEF OwnAt
      <4> QED
        BY <3>5, <4>1, <4>2, <4>3 DEF StatDirectory, MakeDirectory, AccountDone
    <3> QED
      BY <2>5, <3>1, <3>2, <3>3, <3>4, <3>5 DEF AccountStep
  <2> QED
    BY <1>1, <2>1, <2>2, <2>3, <2>4, <2>5 DEF SessionStep, HandlerStep
<1>2. ASSUME NEW s \in Session, SessionStep(s), NEW t \in Session, t # s PROVE OwnAt(t)'
  BY <1>2, StepFrame DEF Frame, Own, OwnAt
<1>3. CASE Crash
  BY <1>3 DEF Crash, Own, OwnAt
<1>4. CASE UNCHANGED vars
  BY <1>4 DEF vars, session, Own, OwnAt
<1> QED
  BY <1>1, <1>2, <1>3, <1>4 DEF Next, SessionStep, Own

\* A command works in the folder of its user unless the session, already
\* logged in, has registered a further name or has verified the password of one
\* whose folder it then failed to make: these are the only ways into the state
\* that breaks OwnFolder.
THEOREM OwnFolderUnlessAgain == Spec /\ []OneAccount => []OwnFolder
<1>1. Init => Own
  BY DEF Init, Own, OwnAt
<1>2. TypeOK /\ Logged /\ Own => OwnFolder
  <2> SUFFICES ASSUME Logged, Own, NEW s \in Session, op[s] \in FileOptions
               PROVE  folderdir[s] = username[s]
    BY DEF OwnFolder
  <2>1. isLoggedin[s] /\ op[s] # "login"
    BY DEF Logged, LoggedAt, FileOptions, FolderOptions
  <2> QED
    BY <2>1 DEF Own, OwnAt
<1> QED
  BY <1>1, <1>2, Progressing, OwnNext, PTL DEF Spec
-----------------------------------------------------------------------------
(* Why a mutex can fail to keep two sessions apart *)

\* No two sessions are at once between the lookup of a name in folderLocks and
\* the insertion of its node.
OneInsertion ==
    \A s, t \in Session : pc[s] = "insertLock" /\ pc[t] = "insertLock" => s = t

NoBreach == breached = {}

LEMMA BreachedNext ==
    TypeOK /\ Logged /\ OwnFolder /\ OneInsertion /\ OneInsertion' /\ NoBreach /\ [Next]_vars
        => NoBreach'
<1> SUFFICES ASSUME TypeOK, Logged, OwnFolder, OneInsertion, OneInsertion', breached = {}, [Next]_vars
             PROVE  breached' = {}
  BY DEF NoBreach
<1>1. ASSUME NEW s \in Session, FindLock(s) PROVE breached' = {}
  <2>1. CASE Inserting = {} \/ breached' = breached
    BY <1>1, <2>1 DEF FindLock
  <2>2. CASE Inserting # {} /\ breached' # breached
    <3>1. PICK t \in Session : pc[t] = "insertLock"
      BY <2>2 DEF Inserting
    <3>2. pc[s] = "find" /\ pc' = [pc EXCEPT ![s] = "insertLock"]
      BY <1>1, <2>2 DEF FindLock
    <3>3. t # s /\ pc'[s] = "insertLock" /\ pc'[t] = "insertLock"
      BY <3>1, <3>2 DEF TypeOK
    <3> QED
      BY <3>3 DEF OneInsertion
  <2> QED
    BY <2>1, <2>2
<1>2. ASSUME NEW s \in Session, LockFolder(s) PROVE breached' = {}
  <2>1. folderdir[s] = username[s]
    BY <1>2 DEF LockFolder, Logged, LoggedAt, AtFolder, FileOptions, OwnFolder
  <2> QED
    BY <1>2, <2>1 DEF LockFolder
<1>3. ASSUME NEW s \in Session, InsertLock(s) PROVE breached' = {}
  BY <1>3 DEF InsertLock, Inserting, OneInsertion
<1>4. ASSUME NEW s \in Session, SessionStep(s), ~FindLock(s), ~InsertLock(s), ~LockFolder(s)
      PROVE  breached' = breached
  BY <1>4 DEF SessionStep, HandlerStep, AccountStep, FolderStep, NextCommand, Accept,
     Disconnect, HandlerEnds, AccountCommand, RefusedCommand, ListCommand, DownloadCommand,
     FolderCommand, Command, ReadFails, RecvUsername, CheckRegistration, InsertRow,
     LookupUser, VerifyPassword, StatDirectory, MakeDirectory, UploadMetadata,
     UploadContent, UploadMarker, RenameRequest, DeleteRequest, ListFolder, DownloadName,
     DownloadAck, DownloadSend, shared
<1>5. CASE Crash
  BY <1>5 DEF Crash
<1>6. CASE UNCHANGED vars
  BY <1>6 DEF vars, shared
<1> QED
  BY <1>1, <1>2, <1>3, <1>4, <1>5, <1>6 DEF Next, SessionStep

LEMMA BreachHasCause == Spec /\ []OneInsertion /\ []OwnFolder => []NoBreach
<1>1. Init => NoBreach
  BY DEF Init, NoBreach
<1> QED
  BY <1>1, Progressing, BreachedNext, PTL DEF Spec

\* The lock_guard keeps all sessions apart that work in one folder, and ...
Apart ==
    \A s, t \in Session :
        pc[s] \in InLock /\ pc[t] \in InLock /\ folderdir[s] = folderdir[t] => s = t

\* ... what an upload writes is what the name of its file will show.
KeptWhole ==
    \A s \in Session :
        pc[s] = "content" =>
            \E f \in File : link[s] = <<folderdir[s], f>> /\ store[folderdir[s]][f] = "part"

\* No rename or delete has gone from one folder into one with an upload.
NoReach == reached = {}

\* What has to hold for the mutexes of folderLocks to be enough: where no two
\* insertions overlap, each session keeps to one account, and no rename or
\* delete names a folder other than its own that has an upload, no two sessions
\* meet in a folder and no upload loses or mixes its file.
THEOREM MutexesSuffice ==
    Spec /\ []OneInsertion /\ []OneAccount /\ []NoReach => [](Apart /\ KeptWhole)
<1>1. NoBreach /\ FolderExclusive => Apart
  BY DEF NoBreach, FolderExclusive, Apart
<1>2. NoBreach /\ NoReach /\ UploadIntact => KeptWhole
  BY DEF NoBreach, NoReach, UploadIntact, KeptWhole
<1> QED
  BY <1>1, <1>2, OwnFolderUnlessAgain, BreachHasCause, FoldersAreExclusive, UploadsAreIntact, PTL
-----------------------------------------------------------------------------
(* Files with mixed content *)

\* A file gets the content of two uploads, rather than being one that had it
\* already, there or under another name, only in a folder that is breached or
\* that a rename or delete from another folder has reached.
Mixes(n, f) ==
    store'[n][f] = "mixed" =>
        \/ n \in Exempt
        \/ \E k \in Folder, g \in File :
              store[k][g] = "mixed" /\ (<<k, g>> = <<n, f>> \/ store'[k][g] # "mixed")

Unmixed == [][\A n \in Folder : \A f \in File : Mixes(n, f)]_store

LEMMA UnmixedSteps ==
    ASSUME TypeOK, Logged, FolderExclusive, Writing, NEW s \in Session, SessionStep(s),
           NEW n \in Folder, NEW f \in File
    PROVE  Mixes(n, f)
<1> SUFFICES ASSUME store'[n][f] = "mixed"
             PROVE  \/ n \in Exempt
                    \/ \E k \in Folder, g \in File :
                          store[k][g] = "mixed" /\ (<<k, g>> = <<n, f>> \/ store'[k][g] # "mixed")
  BY DEF Mixes
<1>0. /\ WritingAt(s)
      /\ pc[s] \in InLock => folderdir[s] \in Name
  BY DEF Writing, Logged, LoggedAt, AtFolder, FileOptions
<1>s. store[n][f] = "mixed" =>
          \E k \in Folder, g \in File :
              store[k][g] = "mixed" /\ (<<k, g>> = <<n, f>> \/ store'[k][g] # "mixed")
  OBVIOUS
<1>1. CASE store' = store
  BY <1>1, <1>s
<1>2. CASE UploadMetadata(s) /\ store' # store
  <2>1. PICK h \in File :
            store' = [store EXCEPT ![folderdir[s]][h] =
                         IF Writers(<<folderdir[s], h>>) = {} THEN "part" ELSE "mixed"]
    BY <1>2 DEF UploadMetadata
  <2>2. pc[s] = "metadata" /\ folderdir[s] \in Name
    BY <1>0, <1>2 DEF UploadMetadata, InLock
  <2>3. CASE n = folderdir[s] /\ f = h /\ Writers(<<folderdir[s], h>>) # {}
    <3>1. PICK u \in Session : link[u] = <<folderdir[s], h>>
      BY <2>3 DEF Writers
    <3>2. link[u] # None
      BY <2>2, <3>1, ServerAssumption DEF ServerAssumption
    <3>3. pc[u] = "content" /\ (n \notin Exempt => folderdir[u] = folderdir[s])
      BY <2>3, <3>1, <3>2 DEF Writing, WritingAt
    <3> QED
      BY <2>2, <2>3, <3>3 DEF FolderExclusive, InLock, Exempt
  <2>4. CASE ~(n = folderdir[s] /\ f = h /\ Writers(<<folderdir[s], h>>) # {})
    <3>1. store'[n][f] \in {"part", store[n][f]}
      BY <2>1, <2>2, <2>4 DEF TypeOK
    <3> QED
      BY <3>1, <1>s
  <2> QED
    BY <2>3, <2>4
<1>3. CASE UploadContent(s) /\ store' # store
  <2>1. store' = [k \in Folder |-> [g \in File |->
            IF link[s] = <<k, g>> /\ store[k][g] = "part" THEN "whole" ELSE store[k][g]]]
    BY <1>3 DEF UploadContent
  <2>2. store'[n][f] \in {"whole", store[n][f]}
    BY <2>1
  <2> QED
    BY <2>2, <1>s
<1>4. ASSUME NEW e \in Entry, NEW g \in Entry, e # g, Rename(e, g)
      PROVE  store[n][f] = "mixed" \/ (store[e[1]][e[2]] = "mixed" /\ store'[e[1]][e[2]] # "mixed")
  <2>1. store'[e[1]][e[2]] = "absent"
    BY <1>4, EntryParts DEF Rename
  <2>2. CASE g = <<n, f>>
    BY <1>4, <2>1, <2>2 DEF Rename
  <2>3. CASE g # <<n, f>>
    BY <1>4, <2>3 DEF Rename
  <2> QED
    BY <2>2, <2>3
<1>5. ASSUME NEW a \in GzName, NEW b \in GzName, a # b, RenameFolder(a, b)
      PROVE  store[n][f] = "mixed" \/ (store[a][f] = "mixed" /\ store'[a][f] # "mixed")
  <2>1. a \in Folder /\ b \in Folder
    BY ServerAssumption DEF ServerAssumption
  <2>2. store[b][f] = "absent" /\ store'[a] = store[b] /\ store'[b] = store[a]
    BY <1>5, <2>1 DEF RenameFolder, TypeOK
  <2>3. n \notin {a, b} => store'[n] = store[n]
    BY <1>5 DEF RenameFolder, TypeOK
  <2> QED
    BY <2>2, <2>3
<1>6. ASSUME NEW e \in Entry, Remove(e) PROVE store[n][f] = "mixed"
  BY <1>6, EntryParts DEF Remove, TypeOK
<1>7. CASE RenameRequest(s) /\ store' # store
  <2>1. CASE \E e, g \in Entry : e # g /\ Rename(e, g)
    BY <1>4, <1>s, <2>1, EntryParts
  <2>2. CASE \E a, b \in GzName : a # b /\ RenameFolder(a, b)
    BY <1>5, <1>s, <2>2, ServerAssumption DEF ServerAssumption
  <2> QED
    BY <1>7, <2>1, <2>2 DEF RenameRequest
<1>8. CASE DeleteRequest(s) /\ store' # store
  BY <1>6, <1>8, <1>s DEF DeleteRequest
<1> QED
  BY <1>1, <1>2, <1>3, <1>7, <1>8, QuietSteps DEF Quiet, ReadFails

\* Two uploads never run together in a file while the mutex of its folder keeps
\* sessions apart and no other folder's rename or delete has been at it: across
\* renames, also from folder to folder, removals and crashes.
THEOREM NothingMixes == Spec => Unmixed
<1>1. TypeOK /\ Logged /\ FolderExclusive /\ Writing /\ [Next]_vars =>
        [\A n \in Folder : \A f \in File : Mixes(n, f)]_store
  <2> SUFFICES ASSUME TypeOK, Logged, FolderExclusive, Writing, [Next]_vars, store' # store,
                      NEW n \in Folder, NEW f \in File
               PROVE  Mixes(n, f)
    OBVIOUS
  <2>1. \E s \in Session : SessionStep(s)
    BY DEF Next, SessionStep, Crash, vars, shared
  <2> QED
    BY <2>1, UnmixedSteps
<1> QED
  BY <1>1, FoldersAreExclusive, LocksKept, WritingKept, PTL DEF Spec, Unmixed
-----------------------------------------------------------------------------
(* Why a registration can end without an answer *)

\* No two sessions insert the row, nor make the folder, of one name at once.
Undisputed ==
    \A s, t \in Session :
        pc[s] \in {"insertRow", "mkdir"} /\ pc[t] = pc[s] /\ user[t] = user[s] => s = t

\* What the checks of registerUser and ensureDirectory have found still holds.
FreshAt(s) ==
    /\ pc[s] = "insertRow" => users[user[s]] = None
    /\ pc[s] = "mkdir" => user[s] \notin dirs
    /\ unanswered[s] # "register"

Fresh == \A s \in Session : FreshAt(s)

\* The steps other than the two that write the database and the store's folders.
LEMMA QuietFresh ==
    ASSUME ~Faults, GzName = {}, TypeOK, Progress, Fresh, NEW s \in Session, SessionStep(s),
           ~InsertRow(s), ~MakeDirectory(s)
    PROVE  FreshAt(s)' /\ UNCHANGED <<users, dirs>>
<1>0. FreshAt(s) /\ ProgressAt(s)
  BY DEF Fresh, Progress
<1> USE <1>0, ServerAssumption DEF ServerAssumption, TypeOK, AccountOptions
<1>r. ASSUME Return(s) PROVE pc'[s] = "option"
  BY <1>r DEF Return
<1>1. CASE Accept(s) \/ Disconnect(s) \/ HandlerEnds(s)
  BY <1>1 DEF Accept, Disconnect, HandlerEnds, shared, FreshAt
<1>2. CASE NextCommand(s)
  BY <1>2 DEF NextCommand, AccountCommand, RefusedCommand, ListCommand,
     DownloadCommand, FolderCommand, Command, Enter, shared, FreshAt
<1>3. CASE ReadFails(s)
  BY <1>3, <1>r DEF ReadFails, ReturnAnswered, FreshAt
<1>4. CASE FolderStep(s)
  <2>1. UNCHANGED <<users, dirs>> /\ pc'[s] \notin {"insertRow", "mkdir"}
    BY <1>4, <1>r, FolderStepsAside DEF AtAccount
  <2>2. unanswered'[s] # "register"
    BY <1>4 DEF FolderStep, FindLock, InsertLock, LockFolder, UploadMetadata, UploadContent,
       UploadMarker, RenameRequest, DeleteRequest, ListFolder, DownloadName, DownloadAck,
       DownloadSend, ReturnAnswered, ReturnSilently, FreshAt
  <2> QED
    BY <2>1, <2>2 DEF FreshAt
<1>5. CASE AccountStep(s)
  <2>0. unanswered' = unanswered /\ UNCHANGED <<users, dirs>>
    BY <1>5 DEF AccountStep, RecvUsername, CheckRegistration, LookupUser, VerifyPassword,
       StatDirectory, AccountDone, ReturnAnswered, shared
  <2>1. CASE RecvUsername(s) \/ LookupUser(s) \/ VerifyPassword(s)
    <3>1. pc'[s] \notin {"insertRow", "mkdir"}
      BY <2>1, <1>r DEF RecvUsername, LookupUser, VerifyPassword, ReturnAnswered
    <3> QED
      BY <2>0, <3>1 DEF FreshAt
  <2>2. CASE CheckRegistration(s)
    <3>1. \/ pc'[s] = "option"
          \/ pc'[s] = "insertRow" /\ user' = user /\ users[user[s]] = None
      BY <2>2, <1>r DEF CheckRegistration, ReturnAnswered, UserExists
    <3> QED
      BY <2>0, <3>1 DEF FreshAt
  <2>3. CASE StatDirectory(s)
    <3>1. \/ pc'[s] = "option"
          \/ pc'[s] = "mkdir" /\ user' = user /\ user[s] \notin dirs
      BY <2>3, <1>r DEF StatDirectory, AccountDone, ReturnAnswered
    <3> QED
      BY <2>0, <3>1 DEF FreshAt
  <2> QED
    BY <1>5, <2>1, <2>2, <2>3 DEF AccountStep
<1> QED
  BY <1>1, <1>2, <1>3, <1>4, <1>5 DEF SessionStep, HandlerStep

LEMMA FreshNext ==
    ASSUME ~Faults, GzName = {}
    PROVE  TypeOK /\ Progress /\ Fresh /\ Undisputed /\ [Next]_vars => Fresh'
<1> SUFFICES ASSUME TypeOK, Progress, Fresh, Undisputed, [Next]_vars PROVE Fresh'
  OBVIOUS
<1> USE ServerAssumption DEF ServerAssumption
<1>1. ASSUME NEW s \in Session, SessionStep(s), NEW t \in Session PROVE FreshAt(t)'
  <2>0. FreshAt(s) /\ FreshAt(t) /\ ProgressAt(s) /\ Frame(s)
    BY <1>1, StepFrame DEF Fresh, Progress
  <2>1. CASE ~InsertRow(s) /\ ~MakeDirectory(s)
    BY <1>1, <2>0, <2>1, QuietFresh DEF Frame, FreshAt
  <2>2. CASE InsertRow(s)
    <3>1. /\ pc[s] = "insertRow" /\ user[s] \in Name /\ dirs' = dirs
          /\ users' = [users EXCEPT ![user[s]] = pass[s]]
          /\ pc' = [pc EXCEPT ![s] = "ensureDir"] /\ unanswered' = unanswered
      BY <2>0, <2>2 DEF InsertRow, FreshAt, ProgressAt, AtAccount
    <3>2. CASE t = s
      BY <2>0, <3>1, <3>2 DEF FreshAt, TypeOK
    <3>3. CASE t # s
      BY <2>0, <3>1, <3>3 DEF FreshAt, Frame, Undisputed, TypeOK
    <3> QED
      BY <3>2, <3>3
  <2>3. CASE MakeDirectory(s)
    <3>1. /\ pc[s] = "mkdir" /\ user[s] \in Name /\ users' = users
          /\ dirs' = dirs \cup {user[s]} /\ AccountDone(s)
      BY <2>0, <2>3 DEF MakeDirectory, FreshAt, ProgressAt, AtAccount
    <3>2. pc'[s] = "option" /\ unanswered' = unanswered
      BY <3>1 DEF AccountDone, ReturnAnswered, Return, TypeOK
    <3>3. CASE t = s
      BY <2>0, <3>2, <3>3 DEF FreshAt
    <3>4. CASE t # s
      BY <2>0, <3>1, <3>2, <3>4 DEF FreshAt, Frame, Undisputed
    <3> QED
      BY <3>3, <3>4
  <2> QED
    BY <2>1, <2>2, <2>3
<1>2. CASE Crash
  BY <1>2 DEF Crash, Fresh, FreshAt, AccountOptions
<1>3. CASE UNCHANGED vars
  BY <1>3 DEF vars, session, shared, Fresh, FreshAt
<1> QED
  BY <1>1, <1>2, <1>3 DEF Next, SessionStep, Fresh

\* While no name ends in .gz, so that no folder is moved to where one is made, a
\* registration ends without an answer only if SQLite or mkdir fails or if two
\* sessions insert the row, or make the folder, of one name at once.
THEOREM AnsweredUnlessDisputed ==
    ASSUME ~Faults, GzName = {}
    PROVE  Spec /\ []Undisputed => []RegistrationAnswered
<1>1. Init => Fresh
  BY ServerAssumption DEF Init, Fresh, FreshAt, ServerAssumption, AccountOptions
<1>2. Fresh => RegistrationAnswered
  BY DEF Fresh, FreshAt, RegistrationAnswered
<1>3. TypeOK /\ Progress /\ Fresh /\ Undisputed /\ [Next]_vars => Fresh'
  BY FreshNext
<1> QED
  BY <1>1, <1>2, <1>3, Progressing, PTL DEF Spec
-----------------------------------------------------------------------------
(* Waiting for a folder *)

\* A session that waits at its lock_guard waits for a session that is inside
\* an upload, rename or delete, so that no two wait for each other and none
\* for itself: the mutexes cannot deadlock.
WaitsForInside ==
    \A s \in Session :
        pc[s] = "lock" =>
            /\ mtx[s] \in Mutex
            /\ owner[mtx[s]] # None => /\ owner[mtx[s]] \in Session \ {s}
                                       /\ pc[owner[mtx[s]]] \in InLock

THEOREM NoDeadlock == Spec => []WaitsForInside
<1>1. TypeOK /\ Locking => WaitsForInside
  <2> SUFFICES ASSUME TypeOK, Locking, NEW s \in Session, pc[s] = "lock"
               PROVE  /\ mtx[s] \in Mutex
                      /\ owner[mtx[s]] # None => /\ owner[mtx[s]] \in Session \ {s}
                                                 /\ pc[owner[mtx[s]]] \in InLock
    BY DEF WaitsForInside
  <2>1. mtx[s] \in Mutex
    BY DEF Locking, LockingAt, Holding, TypeOK
  <2>2. ASSUME owner[mtx[s]] # None
        PROVE  owner[mtx[s]] \in Session \ {s} /\ pc[owner[mtx[s]]] \in InLock
    <3>1. owner[mtx[s]] \in Session
      BY <2>1, <2>2 DEF TypeOK
    <3> QED
      BY <2>1, <3>1 DEF Locking, OwnersInside, InLock
  <2> QED
    BY <2>1, <2>2
<1> QED
  BY <1>1, LocksKept, PTL
=============================================================================
