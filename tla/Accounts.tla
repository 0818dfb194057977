------------------------------ MODULE Accounts ------------------------------
(***************************************************************************)
(* What the server promises about accounts: a name belongs to the first    *)
(* who registers it, and a session is logged in under a name only if it    *)
(* has just presented the name's password and the name has its folder.     *)
(* Server implements it whatever races, fails or crashes.  No folder goes  *)
(* away but one that the commands on files take for a file (GzName).       *)
(***************************************************************************)
CONSTANTS Session, Name, GzName, ValidName, Password, ValidPassword, None

VARIABLES users,     \* the password of each name that is registered
          dirs,      \* the names that have a folder
          tried,     \* by session, the name and password it has presented, if any
          loggedAs   \* by session, the name it is logged in under, if any

vars == <<users, dirs, tried, loggedAs>>

Init ==
    /\ users = [n \in Name |-> None]
    /\ dirs = {}
    /\ tried = [s \in Session |-> None]
    /\ loggedAs = [s \in Session |-> None]

\* A session presents a name and a password, to register or to log in.
Present(s, n, p) ==
    /\ tried[s] = None
    /\ tried' = [tried EXCEPT ![s] = <<n, p>>]
    /\ UNCHANGED <<users, dirs, loggedAs>>

Register(s, n, p) ==
    /\ n \in ValidName /\ p \in ValidPassword
    /\ tried[s] = <<n, p>>
    /\ users[n] = None
    /\ users' = [users EXCEPT ![n] = p]
    /\ UNCHANGED <<dirs, tried, loggedAs>>

\* The session has the password of the name and is told so; the folder is there.
Settle(s, n, p) ==
    /\ tried[s] = <<n, p>>
    /\ users[n] = p
    /\ dirs' = dirs \cup {n}
    /\ tried' = [tried EXCEPT ![s] = None]
    /\ UNCHANGED users

Registered(s, n, p) == Settle(s, n, p) /\ UNCHANGED loggedAs

LogIn(s, n, p) == Settle(s, n, p) /\ loggedAs' = [loggedAs EXCEPT ![s] = n]

\* The session is refused or a step of the way fails.
Withdraw(s) ==
    /\ tried' = [tried EXCEPT ![s] = None]
    /\ UNCHANGED <<users, dirs, loggedAs>>

LogOut(s) ==
    /\ loggedAs' = [loggedAs EXCEPT ![s] = None]
    /\ UNCHANGED <<users, dirs, tried>>

\* A command on files makes, moves or removes folders that have names of files.
Rearrange ==
    /\ dirs' \in SUBSET Name
    /\ dirs' \ GzName = dirs \ GzName
    /\ UNCHANGED <<users, tried, loggedAs>>

\* All connections are gone; names, passwords and folders stay.
Restart ==
    /\ tried' = [s \in Session |-> None]
    /\ loggedAs' = [s \in Session |-> None]
    /\ UNCHANGED <<users, dirs>>

Next ==
    \/ Restart \/ Rearrange
    \/ \E s \in Session :
        \/ Withdraw(s) \/ LogOut(s)
        \/ \E n \in Name, p \in Password :
            \/ Present(s, n, p) \/ Register(s, n, p)
            \/ Registered(s, n, p) \/ LogIn(s, n, p)

Spec == Init /\ [][Next]_vars
=============================================================================
