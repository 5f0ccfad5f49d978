----------------------------- MODULE ChatServer -----------------------------
(***************************************************************************)
(* The chat server of hw6/server.c: the main thread's select loop          *)
(* (selectLoop, handleClientCommands, handleCommand), the login threads    *)
(* (loginProtocol under loginThread or loginThreadLimit), the user list    *)
(* they share, the global recursive mutex, the sockets, and the accounts   *)
(* database.                                                               *)
(*                                                                         *)
(* An action is what a thread does between two points at which another     *)
(* thread could see it: acquiring the mutex, releasing it, a read that     *)
(* waits for the client, and each access to shared data made without the   *)
(* mutex.  A lock that is released again before anything else happens is   *)
(* the guard mutex = Nobody.  What is sent to a client is left out, except *)
(* where a property depends on when it is sent: then the control state     *)
(* tells (main at "msgSend", "uoff"; a thread at "motd").                  *)
(*                                                                         *)
(* A client is what a socket's reads return: any message of the protocol,  *)
(* or the empty string once the client is gone.  A message that never      *)
(* comes keeps its reader waiting.                                         *)
(***************************************************************************)
EXTENDS Integers, Sequences, FiniteSets

CONSTANTS Name,         \* account names
          Password,     \* passwords clients send
          Valid,        \* those of them that validPassword accepts
          Fd,           \* descriptors accept can return
          Rec,          \* addresses of struct user in the user list
          Thread,       \* login threads (at most |Thread| at a time)
          Pooled,       \* thread_count > 0: the threads serve the login queue
          HasAccounts,  \* accounts_file # NULL
          NoName, NoPassword, NoFd, NoRec, Nobody, Orphaned

ASSUME ServerAssumption ==
  /\ Valid \subseteq Password
  /\ Pooled \in BOOLEAN /\ HasAccounts \in BOOLEAN
  /\ NoName \notin Name /\ NoPassword \notin Password
  /\ NoFd \notin Fd /\ NoRec \notin Rec
  /\ Nobody \notin Thread /\ Orphaned \notin Thread /\ Nobody # Orphaned

VARIABLES
  up,       \* the server process runs
  mutex,    \* its holder; Orphaned after the holder's pthread_exit
  sock,     \* each descriptor: "free", or open with the peer "live" or "gone"
  listed,   \* the records in the user list that starts at head
  user,     \* the records: name, connected, fd, password
  db,       \* the rows of the users table: name, password
  loginQ,   \* the login queue, oldest first (LoginQueue refines it)
  pc,       \* login threads: control
  fdOf,     \*   currfd, the socket of their connection
  nm,       \*   currName, the name claimed by IAM or IAMNEW
  found,    \*   currUserInList
  mpc,      \* main thread: control
  todo,     \*   the descriptors of readfds not handled in this round
  currfd,   \*   the socket being handled
  cur,      \*   currConnecting, the record being handled
  to        \*   to_user of the MSG being handled

diskVars == <<db>>
listVars == <<listed, user>>
threadVars == <<pc, fdOf, nm, found>>
mainVars == <<mpc, todo, currfd, cur, to>>
vars == <<up, mutex, sock, listVars, diskVars, loginQ, threadVars, mainVars>>

-----------------------------------------------------------------------------
(* The user list.  Its order only shows in what LISTU and /users print.      *)

Blank == [name |-> NoName, connected |-> FALSE, fd |-> NoFd,
          password |-> NoPassword]

GetUser(n) ==
  IF \E r \in listed : user[r].name = n
    THEN CHOOSE r \in listed : user[r].name = n
    ELSE NoRec

GetUserByFD(f) ==
  IF \E r \in listed : user[r].fd = f
    THEN CHOOSE r \in listed : user[r].fd = f
    ELSE NoRec

(* removeUserListByFD: what remains of the list. *)
RemainWithoutFD(f) == {r \in listed : user[r].fd # f}

(* MUTANT of DisconnectUser: the descriptor stays in the record. *)
KeepDescriptor(r) == user' = [user EXCEPT ![r].connected = FALSE]

DisconnectUser(r) == user' = [user EXCEPT ![r].connected = FALSE, ![r].fd = NoFd]

-----------------------------------------------------------------------------
(* The state of a process that has just started with an empty list. *)

Fresh ==
  /\ mutex' = Nobody
  /\ sock' = [f \in Fd |-> "free"]
  /\ loginQ' = <<>>
  /\ pc' = [t \in Thread |-> "idle"]
  /\ fdOf' = [t \in Thread |-> NoFd]
  /\ nm' = [t \in Thread |-> NoName]
  /\ found' = [t \in Thread |-> NoRec]
  /\ mpc' = "build" /\ todo' = {} /\ currfd' = NoFd /\ cur' = NoRec
  /\ to' = NoRec

Init ==
  /\ up = TRUE
  /\ mutex = Nobody
  /\ sock = [f \in Fd |-> "free"]
  /\ listed = {}
  /\ user = [r \in Rec |-> Blank]
  /\ db = {}
  /\ loginQ = <<>>
  /\ pc = [t \in Thread |-> "idle"]
  /\ fdOf = [t \in Thread |-> NoFd]
  /\ nm = [t \in Thread |-> NoName]
  /\ found = [t \in Thread |-> NoRec]
  /\ mpc = "build" /\ todo = {} /\ currfd = NoFd /\ cur = NoRec
  /\ to = NoRec

(* The process ends: the kernel closes its sockets, the list is gone. *)
Halt ==
  /\ up /\ up' = FALSE
  /\ listed' = {}
  /\ user' = [r \in Rec |-> Blank]
  /\ UNCHANGED db
  /\ Fresh

(* /shutdown, and SIGINT, whose handler the main thread runs: catchCtrlC     *)
(* locks the mutex in clearUserList before it exits.                         *)
Shutdown == mpc = "loop" /\ mutex = Nobody /\ Halt
Interrupt == mutex = Nobody /\ Halt

(* kill -9, or the machine stops. *)
Kill == Halt

(* MUTANT of Start: only the names are read back. *)
StartWithoutPasswords ==
  /\ ~up /\ up' = TRUE
  /\ \E load \in [db -> Rec] :
       /\ \A a, b \in db : load[a] = load[b] => a = b
       /\ listed' = {load[a] : a \in db}
       /\ user' = [r \in Rec |->
            IF \E a \in db : load[a] = r
              THEN [Blank EXCEPT !.name = (CHOOSE a \in db : load[a] = r).name]
              ELSE Blank]
  /\ UNCHANGED <<mutex, sock, db, loginQ, threadVars, mainVars>>

(* A new process: initDatabase and retrieveUsersFromDatabase give every row  *)
(* of the table a record, disconnected.                                      *)
Start ==
  /\ ~up /\ up' = TRUE
  /\ \E load \in [db -> Rec] :
       /\ \A a, b \in db : load[a] = load[b] => a = b
       /\ listed' = {load[a] : a \in db}
       /\ user' = [r \in Rec |->
            IF \E a \in db : load[a] = r
              THEN LET a == CHOOSE b \in db : load[b] = r
                   IN [Blank EXCEPT !.name = a.name, !.password = a.password]
              ELSE Blank]
  /\ UNCHANGED <<mutex, sock, db, loginQ, threadVars, mainVars>>

(* The client of an open socket closes its end, or dies. *)
Vanish(f) ==
  /\ sock[f] = "live"
  /\ sock' = [sock EXCEPT ![f] = "gone"]
  /\ UNCHANGED <<up, mutex, listVars, db, loginQ, threadVars, mainVars>>

-----------------------------------------------------------------------------
(* Login threads: loginProtocol. *)

Goto(t, label) == pc' = [pc EXCEPT ![t] = label]
Live(t) == sock[fdOf[t]] = "live"
Gone(t) == sock[fdOf[t]] = "gone"

(* loginThread returns and its thread ends; loginThreadLimit loops. *)
Leave(t) ==
  /\ Goto(t, "idle")
  /\ fdOf' = [fdOf EXCEPT ![t] = NoFd]
  /\ nm' = [nm EXCEPT ![t] = NoName]
  /\ found' = [found EXCEPT ![t] = NoRec]

(* pthread_exit: a pool thread is gone for good, a thread of one connection  *)
(* would have ended anyway.                                                  *)
Exit(t) ==
  /\ Goto(t, IF Pooled THEN "dead" ELSE "idle")
  /\ fdOf' = [fdOf EXCEPT ![t] = NoFd]
  /\ nm' = [nm EXCEPT ![t] = NoName]
  /\ found' = [found EXCEPT ![t] = NoRec]

(* loginThreadLimit: popLoginQueue, then loginProtocol. *)
TakeConnection(t) ==
  /\ Pooled /\ pc[t] = "idle" /\ loginQ # <<>> /\ mutex = Nobody
  /\ fdOf' = [fdOf EXCEPT ![t] = Head(loginQ)]
  /\ loginQ' = Tail(loginQ)
  /\ Goto(t, "wolfie")
  /\ UNCHANGED <<up, mutex, sock, listVars, db, nm, found, mainVars>>

(* The first message: EIFLOW answers WOLFIE; anything else goes unanswered,  *)
(* and the dialogue goes on in both cases.                                   *)
ReadWolfie(t) ==
  /\ pc[t] = "wolfie" /\ Live(t)
  /\ Goto(t, "iam")
  /\ UNCHANGED <<up, mutex, sock, listVars, db, loginQ, fdOf, nm, found, mainVars>>

ReadIam(t, n, label) ==
  /\ pc[t] = "iam" /\ Live(t)
  /\ label \in {"lockNew", "lockIam"}
  /\ nm' = [nm EXCEPT ![t] = n]
  /\ Goto(t, label)
  /\ UNCHANGED <<up, mutex, sock, listVars, db, loginQ, fdOf, found, mainVars>>

(* Neither IAM nor IAMNEW: ERR 100 and BYE. *)
ReadIamOther(t) ==
  /\ pc[t] = "iam" /\ Live(t)
  /\ Goto(t, "tail")
  /\ UNCHANGED <<up, mutex, sock, listVars, db, loginQ, fdOf, nm, found, mainVars>>

(* The read returns "": checkClientCrash.  Without the mutex, the thread     *)
(* first has to get it for getUser, disconnectUser and broadcastToUsers.     *)
CrashOutside(t) ==
  /\ pc[t] \in {"wolfie", "iam"} /\ Gone(t)
  /\ mutex = Nobody
  /\ Exit(t)
  /\ UNCHANGED <<up, mutex, sock, listVars, db, loginQ, mainVars>>

(* At a password prompt the thread holds the mutex; pthread_exit keeps it.   *)
CrashInside(t) ==
  /\ pc[t] \in {"newpass", "pass"} /\ Gone(t)
  /\ mutex' = Orphaned
  /\ Exit(t)
  /\ UNCHANGED <<up, sock, listVars, db, loginQ, mainVars>>

(* MUTANT of LockNew: the mutex is not kept while the client types. *)
LockNewDropped(t) ==
  /\ pc[t] = "lockNew" /\ mutex = Nobody
  /\ IF GetUser(nm[t]) # NoRec
       THEN /\ listed' = RemainWithoutFD(fdOf[t])
            /\ Goto(t, "tail")
       ELSE /\ Goto(t, "newpass")
            /\ UNCHANGED listed
  /\ UNCHANGED <<up, mutex, sock, user, db, loginQ, fdOf, nm, found, mainVars>>

(* IAMNEW: the mutex, then ERR 00 and BYE for a name that is taken, else     *)
(* HINEW; the mutex is kept while the client types its password.             *)
LockNew(t) ==
  /\ pc[t] = "lockNew" /\ mutex = Nobody
  /\ mutex' = t
  /\ IF GetUser(nm[t]) # NoRec
       THEN /\ listed' = RemainWithoutFD(fdOf[t])
            /\ Goto(t, "unlock")
       ELSE /\ Goto(t, "newpass")
            /\ UNCHANGED listed
  /\ UNCHANGED <<up, sock, user, db, loginQ, fdOf, nm, found, mainVars>>

(* A valid password: storePassword, SSAPWEN, addUserList, HI. *)
NewPass(t, p, r) ==
  /\ pc[t] = "newpass" /\ Live(t)
  /\ p \in Valid /\ r \in Rec \ listed
  /\ user' = [user EXCEPT ![r] = [name |-> nm[t], connected |-> TRUE,
                                   fd |-> fdOf[t], password |-> p]]
  /\ listed' = listed \cup {r}
  /\ found' = [found EXCEPT ![t] = r]
  /\ Goto(t, "savedb")
  /\ UNCHANGED <<up, mutex, sock, db, loginQ, fdOf, nm, mainVars>>

(* A bad password or another verb: ERR 02 or ERR 100, and BYE. *)
NewPassRefused(t) ==
  /\ pc[t] = "newpass" /\ Live(t)
  /\ listed' = RemainWithoutFD(fdOf[t])
  /\ Goto(t, "unlock")
  /\ UNCHANGED <<up, mutex, sock, user, db, loginQ, fdOf, nm, found, mainVars>>

(* MUTANT of SaveDb: the table's primary key is the password. *)
SaveDbPasswordKey(t) ==
  /\ pc[t] = "savedb"
  /\ LET new == [name |-> nm[t], password |-> user[found[t]].password] IN
     db' = IF HasAccounts /\ ~\E a \in db : a.password = new.password
             THEN db \cup {new} ELSE db
  /\ Goto(t, "motd")
  /\ UNCHANGED <<up, mutex, sock, listVars, loginQ, fdOf, nm, found, mainVars>>

(* addUserToDatabase: the insert fails if the primary key is there already;  *)
(* the failure is ignored.                                                   *)
SaveDb(t) ==
  /\ pc[t] = "savedb"
  /\ db' = IF HasAccounts /\ ~\E a \in db : a.name = nm[t]
             THEN db \cup {[name |-> nm[t], password |-> user[found[t]].password]}
             ELSE db
  /\ Goto(t, "motd")
  /\ UNCHANGED <<up, mutex, sock, listVars, loginQ, fdOf, nm, found, mainVars>>

(* IAM: the mutex; ERR 01 if there is no such account, ERR 00 if it is in    *)
(* use, else AUTH, and the mutex is kept while the client types.             *)
LockIam(t) ==
  /\ pc[t] = "lockIam" /\ mutex = Nobody
  /\ mutex' = t
  /\ LET r == GetUser(nm[t]) IN
     IF r = NoRec \/ (r # NoRec /\ user[r].connected)
       THEN /\ listed' = RemainWithoutFD(fdOf[t])
            /\ Goto(t, "unlock")
            /\ UNCHANGED found
       ELSE /\ found' = [found EXCEPT ![t] = r]
            /\ Goto(t, "pass")
            /\ UNCHANGED listed
  /\ UNCHANGED <<up, sock, user, db, loginQ, fdOf, nm, mainVars>>

(* The right password: SSAP, HI, removeUserListByFD, then loginUser, whose   *)
(* two writes to the listed record MSG can see apart.                        *)
Pass(t, p) ==
  /\ pc[t] = "pass" /\ Live(t)
  /\ p = user[found[t]].password
  /\ listed' = RemainWithoutFD(fdOf[t])
  /\ user' = [user EXCEPT ![found[t]].connected = TRUE]
  /\ Goto(t, "loginFd")
  /\ UNCHANGED <<up, mutex, sock, db, loginQ, fdOf, nm, found, mainVars>>

(* A wrong password or another verb: ERR 02 or ERR 100, and BYE. *)
PassRefused(t, p) ==
  /\ pc[t] = "pass" /\ Live(t)
  /\ p # user[found[t]].password
  /\ Goto(t, "unlock")
  /\ UNCHANGED <<up, mutex, sock, listVars, db, loginQ, fdOf, nm, found, mainVars>>

LoginFd(t) ==
  /\ pc[t] = "loginFd"
  /\ user' = [user EXCEPT ![found[t]].fd = fdOf[t]]
  /\ Goto(t, "motd")
  /\ UNCHANGED <<up, mutex, sock, listed, db, loginQ, fdOf, nm, found, mainVars>>

(* MUTANT of SendMotd: loginProtocol returns 1 and keeps the mutex. *)
SendMotdLocked(t) ==
  /\ pc[t] = "motd"
  /\ Leave(t)
  /\ UNCHANGED <<up, mutex, sock, listVars, db, loginQ, mainVars>>

(* MOTD is written; the mutex is released and loginProtocol returns 1. *)
SendMotd(t) ==
  /\ pc[t] = "motd"
  /\ mutex' = Nobody
  /\ Leave(t)
  /\ UNCHANGED <<up, sock, listVars, db, loginQ, mainVars>>

(* MUTANT of Unlock: the refused login keeps the mutex. *)
UnlockForgotten(t) ==
  /\ pc[t] = "unlock"
  /\ Goto(t, "tail")
  /\ UNCHANGED <<up, mutex, sock, listVars, db, loginQ, fdOf, nm, found, mainVars>>

(* MUTANT of Unlock: the refused socket is closed before removeUserListByFD. *)
UnlockAndClose(t) ==
  /\ pc[t] = "unlock"
  /\ mutex' = Nobody
  /\ sock' = [sock EXCEPT ![fdOf[t]] = "free"]
  /\ Goto(t, "tail")
  /\ UNCHANGED <<up, listVars, db, loginQ, fdOf, nm, found, mainVars>>

(* A refused login releases the mutex; loginProtocol's last call removes     *)
(* what the list still has of the connection, and returns 0.                 *)
Unlock(t) ==
  /\ pc[t] = "unlock"
  /\ mutex' = Nobody
  /\ Goto(t, "tail")
  /\ UNCHANGED <<up, sock, listVars, db, loginQ, fdOf, nm, found, mainVars>>

RefusedTail(t) ==
  /\ pc[t] = "tail" /\ mutex = Nobody
  /\ listed' = RemainWithoutFD(fdOf[t])
  /\ Leave(t)
  /\ UNCHANGED <<up, mutex, sock, user, db, loginQ, mainVars>>

-----------------------------------------------------------------------------
(* Main thread: selectLoop. *)

MainAt(label) == up /\ mpc = label
MainGoto(label) == mpc' = label

(* MUTANT of Build: every user's descriptor is watched. *)
BuildAll ==
  /\ MainAt("build") /\ mutex = Nobody
  /\ todo' = {user[r].fd : r \in listed}
  /\ MainGoto("loop")
  /\ UNCHANGED <<up, mutex, sock, listVars, db, loginQ, threadVars, currfd, cur, to>>

(* readfds: the sockets of the connected users, under the mutex. *)
Build ==
  /\ MainAt("build") /\ mutex = Nobody
  /\ todo' = {user[r].fd : r \in {s \in listed : user[s].connected}}
  /\ MainGoto("loop")
  /\ UNCHANGED <<up, mutex, sock, listVars, db, loginQ, threadVars, currfd, cur, to>>

(* The descriptors that select did not report are skipped: the round ends. *)
EndRound ==
  /\ MainAt("loop")
  /\ todo' = {}
  /\ MainGoto("build")
  /\ UNCHANGED <<up, mutex, sock, listVars, db, loginQ, threadVars, currfd, cur, to>>

(* accept and handleOnAccept, with a thread for the connection... *)
Accept(f, t) ==
  /\ MainAt("loop") /\ ~Pooled
  /\ sock[f] = "free" /\ pc[t] = "idle"
  /\ sock' = [sock EXCEPT ![f] = "live"]
  /\ fdOf' = [fdOf EXCEPT ![t] = f]
  /\ Goto(t, "wolfie")
  /\ UNCHANGED <<up, mutex, listVars, db, loginQ, nm, found, mainVars>>

(* ... or with the pool: addLoginQueue needs the mutex. *)
AcceptPooled(f) ==
  /\ MainAt("loop") /\ Pooled
  /\ sock[f] = "free"
  /\ sock' = [sock EXCEPT ![f] = "live"]
  /\ currfd' = f
  /\ MainGoto("enqueue")
  /\ UNCHANGED <<up, mutex, listVars, db, loginQ, threadVars, todo, cur, to>>

Enqueue ==
  /\ MainAt("enqueue") /\ mutex = Nobody
  /\ loginQ' = Append(loginQ, currfd)
  /\ currfd' = NoFd
  /\ MainGoto("loop")
  /\ UNCHANGED <<up, mutex, sock, listVars, db, threadVars, todo, cur, to>>

(* accept fails when no descriptor is left: error() ends the server. *)
AcceptFails ==
  /\ MainAt("loop") /\ mutex = Nobody
  /\ \A f \in Fd : sock[f] # "free"
  /\ Halt

(* A readable socket: getUserByFD, then handleClientCommands reads it. *)
Handle(f) ==
  /\ MainAt("loop") /\ mutex = Nobody
  /\ f \in todo /\ todo' = todo \ {f}
  /\ LET r == GetUserByFD(f) IN
     IF r = NoRec
       THEN UNCHANGED <<mpc, currfd, cur>>
       ELSE /\ cur' = r
            /\ currfd' = user[r].fd
            /\ MainGoto("read")
  /\ UNCHANGED <<up, mutex, sock, listVars, db, loginQ, threadVars, to>>

DoneWithClient ==
  /\ MainGoto("loop")
  /\ currfd' = NoFd /\ cur' = NoRec /\ to' = NoRec
  /\ UNCHANGED todo

(* TIME is answered from the record; LISTU walks the list under the mutex,   *)
(* as the operator's /users, /accts and /listq do.                           *)
ReadTime ==
  /\ MainAt("read") /\ sock[currfd] = "live"
  /\ DoneWithClient
  /\ UNCHANGED <<up, mutex, sock, listVars, db, loginQ, threadVars>>

ReadListu ==
  /\ MainAt("read") /\ sock[currfd] = "live"
  /\ MainGoto("listu")
  /\ UNCHANGED <<up, mutex, sock, listVars, db, loginQ, threadVars, todo, currfd,
                 cur, to>>

Listu ==
  /\ MainAt("listu") /\ mutex = Nobody
  /\ DoneWithClient
  /\ UNCHANGED <<up, mutex, sock, listVars, db, loginQ, threadVars>>

ReadMsg ==
  /\ MainAt("read") /\ sock[currfd] = "live"
  /\ MainGoto("msg")
  /\ UNCHANGED <<up, mutex, sock, listVars, db, loginQ, threadVars, todo, currfd,
                 cur, to>>

(* getUser(to), under the mutex.  from is the sender, cur, who is listed     *)
(* and connected.  ERR 01 if the addressee is not in the list.               *)
LookupTo(n) ==
  /\ MainAt("msg") /\ mutex = Nobody
  /\ IF GetUser(n) = NoRec
       THEN DoneWithClient
       ELSE /\ to' = GetUser(n)
            /\ MainGoto("msgCheck")
            /\ UNCHANGED <<todo, currfd, cur>>
  /\ UNCHANGED <<up, mutex, sock, listVars, db, loginQ, threadVars>>

(* connected is read without the mutex: ERR 01 if it is 0. *)
CheckTo ==
  /\ MainAt("msgCheck")
  /\ IF user[to].connected
       THEN /\ MainGoto("msgSend")
            /\ UNCHANGED <<todo, currfd, cur, to>>
       ELSE DoneWithClient
  /\ UNCHANGED <<up, mutex, sock, listVars, db, loginQ, threadVars>>

(* client_socket_fd is read without the mutex, and the message is written    *)
(* to it and to the sender.                                                  *)
SendMsg ==
  /\ MainAt("msgSend")
  /\ DoneWithClient
  /\ UNCHANGED <<up, mutex, sock, listVars, db, loginQ, threadVars>>

(* BYE: the reply, getUserByFD, disconnectUser... *)
ReadBye ==
  /\ MainAt("read") /\ sock[currfd] = "live"
  /\ MainGoto("bye")
  /\ UNCHANGED <<up, mutex, sock, listVars, db, loginQ, threadVars, todo, currfd,
                 cur, to>>

(* MUTANT of Bye: removeUserListByFD, as the earlier version had it. *)
ByeRemoves ==
  /\ MainAt("bye") /\ mutex = Nobody
  /\ listed' = RemainWithoutFD(currfd)
  /\ MainGoto("uoffBye")
  /\ UNCHANGED <<up, mutex, sock, user, db, loginQ, threadVars, todo, currfd,
                 cur, to>>

Bye ==
  /\ MainAt("bye") /\ mutex = Nobody
  /\ DisconnectUser(GetUserByFD(currfd))
  /\ MainGoto("uoffBye")
  /\ UNCHANGED <<up, mutex, sock, listed, db, loginQ, threadVars, todo, currfd,
                 cur, to>>

(* ... UOFF to everyone connected, and close. *)
UoffBye ==
  /\ MainAt("uoffBye") /\ mutex = Nobody
  /\ MainGoto("close")
  /\ UNCHANGED <<up, mutex, sock, listVars, db, loginQ, threadVars, todo, currfd,
                 cur, to>>

CloseBye ==
  /\ MainAt("close")
  /\ sock' = [sock EXCEPT ![currfd] = "free"]
  /\ DoneWithClient
  /\ UNCHANGED <<up, mutex, listVars, db, loginQ, threadVars>>

(* MUTANT of ClientCrash: disconnectUser is not called. *)
ClientCrashKeeps ==
  /\ MainAt("read") /\ sock[currfd] = "gone"
  /\ mutex = Nobody
  /\ MainGoto("uoff")
  /\ UNCHANGED <<up, mutex, sock, listVars, db, loginQ, threadVars, todo, currfd,
                 cur, to>>

(* The read returns "": checkClientCrashMainThread and handleClientCrash.    *)
(* disconnectUser sets the record's descriptor to -1 before close is called  *)
(* with it, so that the socket stays open.                                   *)
ClientCrash ==
  /\ MainAt("read") /\ sock[currfd] = "gone"
  /\ mutex = Nobody
  /\ DisconnectUser(GetUser(user[cur].name))
  /\ MainGoto("uoff")
  /\ UNCHANGED <<up, mutex, sock, listed, db, loginQ, threadVars, todo, currfd,
                 cur, to>>

UoffCrash ==
  /\ MainAt("uoff") /\ mutex = Nobody
  /\ DoneWithClient
  /\ UNCHANGED <<up, mutex, sock, listVars, db, loginQ, threadVars>>

-----------------------------------------------------------------------------
(* Reads wait for the client; the other steps of a thread are its own, and   *)
(* so is a read of a socket whose client is gone, which returns at once.     *)
LoginReads(t) ==
  \/ ReadWolfie(t) \/ ReadIamOther(t) \/ NewPassRefused(t)
  \/ \E n \in Name, label \in {"lockNew", "lockIam"} : ReadIam(t, n, label)
  \/ \E p \in Password : Pass(t, p) \/ PassRefused(t, p)
  \/ \E p \in Valid, r \in Rec : NewPass(t, p, r)

LoginSteps(t) ==
  \/ TakeConnection(t) \/ LockNew(t) \/ LockIam(t) \/ SaveDb(t) \/ LoginFd(t)
  \/ SendMotd(t) \/ Unlock(t) \/ RefusedTail(t)
  \/ CrashOutside(t) \/ CrashInside(t)

ClientReads == ReadTime \/ ReadListu \/ ReadMsg \/ ReadBye

MainSteps ==
  \/ Build \/ EndRound \/ Enqueue \/ Listu \/ CheckTo \/ SendMsg
  \/ \E n \in Name : LookupTo(n)
  \/ Bye \/ UoffBye \/ CloseBye \/ ClientCrash \/ UoffCrash

Arrivals ==
  \/ \E f \in Fd : AcceptPooled(f) \/ Handle(f)
  \/ \E f \in Fd, t \in Thread : Accept(f, t)

Stops == Shutdown \/ Interrupt \/ Kill \/ AcceptFails

ServerNext ==
  \/ \E t \in Thread : LoginReads(t) \/ LoginSteps(t)
  \/ ClientReads \/ MainSteps \/ Arrivals
  \/ Stops \/ Start

Next == ServerNext \/ \E f \in Fd : Vanish(f)

Spec == Init /\ [][Next]_vars

(* Fairness.  A thread that can go on does, and gets the mutex if it is free *)
(* again and again; select reports a socket whose client is gone; a client   *)
(* that is asked for something answers or goes.                              *)
ThreadFairness ==
  /\ SF_vars(MainSteps)
  /\ \A f \in Fd : SF_vars(sock[f] = "gone" /\ Handle(f))
  /\ \A t \in Thread : SF_vars(LoginSteps(t))

ClientFairness ==
  /\ WF_vars(ClientReads)
  /\ \A t \in Thread : WF_vars(LoginReads(t))

FairSpec == Spec /\ ThreadFairness /\ ClientFairness

(* The same when no client leaves in the middle of its login. *)
LoggingIn(f) ==
  \/ \E t \in Thread : fdOf[t] = f
  \/ \E i \in DOMAIN loginQ : loginQ[i] = f
  \/ mpc = "enqueue" /\ currfd = f

SteadyNext == ServerNext \/ \E f \in Fd : ~LoggingIn(f) /\ Vanish(f)

SteadySpec == Init /\ [][SteadyNext]_vars /\ ThreadFairness /\ ClientFairness

-----------------------------------------------------------------------------
ThreadPC == {"idle", "wolfie", "iam", "lockNew", "newpass", "savedb", "lockIam",
             "pass", "loginFd", "motd", "unlock", "tail", "dead"}
MainPC == {"build", "loop", "enqueue", "read", "listu", "msg", "msgCheck",
           "msgSend", "bye", "uoffBye", "close", "uoff"}

Record == [name : Name \cup {NoName}, connected : BOOLEAN, fd : Fd \cup {NoFd},
           password : Password \cup {NoPassword}]

(* todo \subseteq Fd says that FD_SET is never given the descriptor -1. *)
TypeOK ==
  /\ up \in BOOLEAN
  /\ mutex \in Thread \cup {Nobody, Orphaned}
  /\ sock \in [Fd -> {"free", "live", "gone"}]
  /\ listed \subseteq Rec
  /\ user \in [Rec -> Record]
  /\ db \subseteq [name : Name, password : Valid]
  /\ loginQ \in Seq(Fd)
  /\ pc \in [Thread -> ThreadPC]
  /\ fdOf \in [Thread -> Fd \cup {NoFd}]
  /\ nm \in [Thread -> Name \cup {NoName}]
  /\ found \in [Thread -> Rec \cup {NoRec}]
  /\ mpc \in MainPC /\ todo \subseteq Fd
  /\ currfd \in Fd \cup {NoFd}
  /\ cur \in Rec \cup {NoRec} /\ to \in Rec \cup {NoRec}

(* Two users never have the same name: IAMNEW's test for a free name and     *)
(* addUserList are far apart, with the password prompt between them.         *)
UniqueNames == \A r, s \in listed : user[r].name = user[s].name => r = s

(* A user's descriptor is an open socket and no other user's; a user who is  *)
(* not connected has none, so that a descriptor that is closed and returned  *)
(* by accept again cannot be taken for his.  A connected user has one, but   *)
(* for the moment inside loginUser.                                          *)
SessionsSound ==
  \A r \in listed :
    /\ user[r].fd # NoFd =>
         /\ user[r].connected
         /\ sock[user[r].fd] # "free"
         /\ \A s \in listed : user[s].fd = user[r].fd => s = r
    /\ user[r].connected /\ user[r].fd = NoFd =>
         \E t \in Thread : pc[t] = "loginFd" /\ found[t] = r

InDialogue(t) == pc[t] \notin {"idle", "dead", "savedb", "motd"}

(* A socket whose login goes on is open, is in the hands of one thread, does *)
(* not wait in the queue, and is no user's: the main thread never reads it.  *)
OneReader ==
  \A t \in Thread : InDialogue(t) =>
    /\ fdOf[t] # NoFd /\ sock[fdOf[t]] # "free"
    /\ \A u \in Thread : fdOf[u] = fdOf[t] => u = t
    /\ \A i \in DOMAIN loginQ : loginQ[i] # fdOf[t]
    /\ \A r \in listed : user[r].fd # fdOf[t]

(* The records that threads keep pointers to, across unlocks and prompts,    *)
(* stay in the list.                                                         *)
PointersListed ==
  /\ mpc \in {"read", "listu", "msg", "bye", "uoffBye", "uoff", "close"} =>
       cur \in listed
  /\ mpc \in {"msgCheck", "msgSend"} => cur \in listed /\ to \in listed
  /\ \A t \in Thread : pc[t] \in {"savedb", "pass", "loginFd"} =>
       found[t] \in listed /\ user[found[t]].name = nm[t]

(* With an accounts file, the list and the table hold the same accounts with *)
(* the same passwords, except while a new account is on its way to the table.*)
AccountsMatchDb ==
  up /\ HasAccounts /\ (\A t \in Thread : pc[t] # "savedb") =>
    db = {[name |-> user[r].name, password |-> user[r].password] : r \in listed}

(* No account leaves the list while the server runs: removeUserListByFD,     *)
(* called for every refused login, never hits the record of a user whose     *)
(* former descriptor the connection was given.                               *)
AccountsStay == [][up /\ up' => listed \subseteq listed']_vars

(* A user's session is never moved to another socket: it ends first. *)
NoTakeover ==
  [][\A r \in listed \cap listed' :
       user[r].fd # NoFd /\ user'[r].fd # NoFd => user'[r].fd = user[r].fd]_vars

(* Accounts and sessions are those of ChatService.  An account counts from   *)
(* its insert on: the mutex hides it from everyone until then.               *)
Visible == {r \in listed : \A t \in Thread : pc[t] = "savedb" => found[t] # r}
Row(r) == [name |-> user[r].name, password |-> user[r].password]

Accounts == IF up THEN {Row(r) : r \in Visible} ELSE db
Session == [n \in Name |->
  IF \E r \in Visible : user[r].name = n
    THEN user[CHOOSE r \in Visible : user[r].name = n].fd
    ELSE NoFd]

Chat == INSTANCE ChatService WITH
  accounts <- Accounts, session <- Session, Persistent <- HasAccounts

ImplementsChat == Chat!Spec

(* Every login dialogue ends, and its thread with it or goes back to the     *)
(* queue.                                                                    *)
LoginsEnd ==
  \A t \in Thread : pc[t] \notin {"idle", "dead"} ~> pc[t] \in {"idle", "dead"}

(* The main thread comes back to select, again and again, to serve everyone  *)
(* else.                                                                     *)
MainReturns == []<>(mpc = "build")

(* A user whose client vanished is disconnected, so that the name can log in *)
(* again.                                                                    *)
UsedByGone(f) == sock[f] = "gone" /\ \E r \in listed : user[r].fd = f
GoneUsersLeave == \A f \in Fd : UsedByGone(f) ~> ~UsedByGone(f)

(* A message that is not refused finds its addressee logged in: not inside   *)
(* loginUser, without a descriptor, nor between his HI and his MOTD.         *)
MsgReachesAddressee ==
  [][mpc = "msgSend" /\ mpc' = "loop" =>
       /\ user[to].fd # NoFd
       /\ \A t \in Thread : pc[t] = "motd" => found[t] # to]_vars

(* UOFF is sent for a user who is not connected. *)
UoffMeansGone ==
  [][(mpc = "uoffBye" /\ mpc' = "close") \/ (mpc = "uoff" /\ mpc' = "loop") =>
       ~user[cur].connected]_vars

(* The socket of a user whose client vanished is closed in the end. *)
GoneUsersClosed == \A f \in Fd : UsedByGone(f) ~> sock[f] = "free"
=============================================================================
