----------------------------- MODULE FirstServer -----------------------------
(***************************************************************************)
(* The first version of the chat server, hw5/server.c: a main thread that  *)
(* accepts, and a thread for each connection that leads its login          *)
(* (loginProtocol) and then serves its commands (handleClientCommands).    *)
(* All of them share the user list, and there is no mutex.                 *)
(*                                                                         *)
(* An action is what a thread does from one read of its socket to the      *)
(* next, split where the thread leaves the shared state half changed for   *)
(* another to see: between the writes of disconnectUser, between opening,  *)
(* using and closing the database, whose handle is one global variable,    *)
(* and between loginUser and the look-up of the record that loginThread    *)
(* goes on with.  Walking the list, linking and unlinking a record are     *)
(* single steps.                                                           *)
(*                                                                         *)
(* TIME, LISTU and MSG only read the shared state and are left out, as is  *)
(* what is sent.  A read returns a message, or nothing once the client is  *)
(* gone.                                                                   *)
(***************************************************************************)
EXTENDS Integers, FiniteSets, FiniteSetsExt, SequencesExt

CONSTANTS Name, Password,  \* account names, passwords clients send
          Valid,           \* those of them that validPassword accepts
          Fd,              \* descriptors accept can return
          MaxRec,          \* bound on the struct users in memory
          Thread,          \* bound on the connections served at a time
          HasAccounts,     \* accounts_file # NULL
          NoName, NoPassword, NoFd

Rec == 1 .. MaxRec
NoRec == 0

ASSUME FirstServerAssumption ==
  /\ MaxRec \in Nat /\ HasAccounts \in BOOLEAN
  /\ Valid \subseteq Password
  /\ NoName \notin Name /\ NoPassword \notin Password /\ NoFd \notin Fd

VARIABLES
  up,      \* the server process runs
  open,    \* the connections' descriptors that are open
  users,   \* the list from head: addresses of records
  rec,     \* the records: name, connected, fd, password
  db,      \* the rows of the users table, in the order of their inserts
  database, \* the handle: "open", or "closed" and not to be used
  th,      \* threads: pc, currfd, currConnecting (cur), currName (nm), and
           \*   the record found by getUser or getUserByFD
  clash    \* two threads have been at work on one account or one record

vars == <<up, open, users, rec, db, database, th, clash>>

Blank == [name |-> NoName, connected |-> FALSE, fd |-> NoFd,
          password |-> NoPassword]

Idle == [pc |-> "idle", fd |-> NoFd, cur |-> NoRec, nm |-> NoName, found |-> NoRec]

-----------------------------------------------------------------------------
(* The list: getUser, getUserByFD, removeUserListByFD find the first record. *)

FirstOf(s, hits) == IF hits = {} THEN NoRec ELSE s[Min(hits)]

GetUser(n) == FirstOf(users, {i \in DOMAIN users : rec[users[i]].name = n})

GetUserByFD(f) == FirstOf(users, {i \in DOMAIN users : rec[users[i]].fd = f})

RemoveByFD(s, f) ==
  LET hits == {i \in DOMAIN s : rec[s[i]].fd = f}
  IN IF hits = {} THEN s ELSE RemoveAt(s, Min(hits))

(* What calloc can return: records that no list or thread points to. *)
FreeRec ==
  Rec \ (ToSet(users) \cup {th[t].cur : t \in Thread} \cup {th[t].found : t \in Thread})

-----------------------------------------------------------------------------
(* The process. *)

Init ==
  /\ up = TRUE /\ open = {} /\ users = <<>> /\ db = <<>> /\ database = "closed"
  /\ rec = [r \in Rec |-> Blank]
  /\ th = [t \in Thread |-> Idle]
  /\ clash = FALSE

(* It ends: by catchCtrlC, a NULL that is followed, SIGPIPE (which is not    *)
(* ignored here), or from outside.                                           *)
Halt ==
  /\ up' = FALSE /\ open' = {} /\ users' = <<>> /\ database' = "closed"
  /\ rec' = [r \in Rec |-> Blank]
  /\ th' = [t \in Thread |-> Idle]
  /\ UNCHANGED db

(* /shutdown, SIGINT, SIGPIPE, SIGKILL. *)
Stop == up /\ Halt

(* initDatabase and retrieveUsersFromDatabase, which close what they open: a *)
(* record for each row (bounded by MaxRec).                                  *)
Start ==
  /\ ~up /\ Len(db) <= MaxRec
  /\ up' = TRUE
  /\ users' = [i \in DOMAIN db |-> i]
  /\ rec' = [r \in Rec |->
       IF r \in DOMAIN db
         THEN [Blank EXCEPT !.name = db[r].name, !.password = db[r].password]
         ELSE Blank]
  /\ UNCHANGED <<open, db, database, th>>

(* selectLoop: accept, createUser, addUserList, pthread_create. *)
Accept(t, f) ==
  /\ up /\ th[t].pc = "idle" /\ f \notin open /\ FreeRec # {}
  /\ LET r == Min(FreeRec)
     IN /\ users' = Append(users, r)
        /\ rec' = [rec EXCEPT ![r] = [Blank EXCEPT !.fd = f]]
        /\ th' = [th EXCEPT ![t] = [Idle EXCEPT !.pc = "hello", !.fd = f, !.cur = r]]
  /\ open' = open \cup {f}
  /\ UNCHANGED <<up, db, database>>

(* No descriptor is left: error() ends the server. *)
AcceptFails == up /\ open = Fd /\ Halt

-----------------------------------------------------------------------------
(* loginProtocol. *)

(* Thread t waits at label for its client and gets a message. *)
Reads(t, label) == th[t].pc = label /\ th[t].fd \in open

(* A refused login: the connection's record is unlinked, in the branch and   *)
(* again at the end of loginProtocol; the socket stays open.                 *)
Refuse(t) ==
  /\ users' = RemoveByFD(RemoveByFD(users, th[t].fd), th[t].fd)
  /\ th' = [th EXCEPT ![t] = Idle]
  /\ UNCHANGED <<up, open, rec, db, database>>

(* The same where only the end of loginProtocol does it. *)
RefuseAtEnd(t) ==
  /\ users' = RemoveByFD(users, th[t].fd)
  /\ th' = [th EXCEPT ![t] = Idle]
  /\ UNCHANGED <<up, open, rec, db, database>>

(* WOLFIE, or anything else: only the EIFLOW depends on it. *)
Hello(t) ==
  /\ Reads(t, "hello")
  /\ th' = [th EXCEPT ![t].pc = "iam"]
  /\ UNCHANGED <<up, open, users, rec, db, database>>

IamNew(t, n) ==
  /\ Reads(t, "iam")
  /\ IF GetUser(n) # NoRec
       THEN Refuse(t)
       ELSE /\ th' = [th EXCEPT ![t].pc = "newpass", ![t].nm = n]
            /\ UNCHANGED <<up, open, users, rec, db, database>>

(* Until now the record has no name; here the user appears to the others. *)
NewPass(t, p) ==
  /\ Reads(t, "newpass")
  /\ IF p \in Valid
       THEN /\ rec' = [rec EXCEPT ![th[t].cur].connected = TRUE,
                                  ![th[t].cur].name = th[t].nm,
                                  ![th[t].cur].password = p]
            /\ th' = [th EXCEPT ![t].pc = "save"]
            /\ UNCHANGED <<up, open, users, db, database>>
       ELSE Refuse(t)

(* addUserToDatabase: sqlite3_open stores the handle in the global variable. *)
OpenDatabase(t) ==
  /\ th[t].pc = "save"
  /\ IF HasAccounts
       THEN database' = "open" /\ th' = [th EXCEPT ![t].pc = "insert"]
       ELSE UNCHANGED database /\ th' = [th EXCEPT ![t].pc = "enter"]
  /\ UNCHANGED <<up, open, users, rec, db>>

(* A thread with the database open. *)
AtDatabase(t) == th[t].pc \in {"insert", "close"}

(* MUTANT of Insert: the table has no primary key. *)
InsertAnyway(t) ==
  /\ th[t].pc = "insert"
  /\ db' = Append(db, [name |-> rec[th[t].cur].name, password |-> rec[th[t].cur].password])
  /\ th' = [th EXCEPT ![t].pc = "close"]
  /\ UNCHANGED <<up, open, users, rec, database>>

(* sqlite3_exec: the insert fails when the key, the name, is there; also,    *)
(* for all that is known, if another thread has the file locked, or has      *)
(* closed the handle that database holds.  Nobody looks at its result.       *)
Insert(t) ==
  /\ th[t].pc = "insert"
  /\ LET me == rec[th[t].cur]
     IN \/ /\ database = "open"
           /\ db' = IF \A i \in DOMAIN db : db[i].name # me.name
                      THEN Append(db, [name |-> me.name, password |-> me.password])
                      ELSE db
        \/ /\ database = "closed" \/ \E u \in Thread \ {t} : AtDatabase(u)
           /\ UNCHANGED db
  /\ th' = [th EXCEPT ![t].pc = "close"]
  /\ UNCHANGED <<up, open, users, rec, database>>

CloseDatabase(t) ==
  /\ th[t].pc = "close"
  /\ database' = "closed"
  /\ th' = [th EXCEPT ![t].pc = "enter"]
  /\ UNCHANGED <<up, open, users, rec, db>>

(* A handle that another thread has closed is freed memory: its use, which   *)
(* Insert and CloseDatabase take to fail, may also end the server.           *)
UseAfterClose(t) == AtDatabase(t) /\ database = "closed" /\ Halt

(* MUTANT of Iam: the test that the account is not in use is missing. *)
IamAnyway(t, n) ==
  /\ Reads(t, "iam")
  /\ IF GetUser(n) = NoRec
       THEN Refuse(t)
       ELSE /\ th' = [th EXCEPT ![t].pc = "pass", ![t].nm = n, ![t].found = GetUser(n)]
            /\ UNCHANGED <<up, open, users, rec, db, database>>

Iam(t, n) ==
  /\ Reads(t, "iam")
  /\ IF GetUser(n) = NoRec \/ rec[GetUser(n)].connected
       THEN Refuse(t)
       ELSE /\ th' = [th EXCEPT ![t].pc = "pass", ![t].nm = n, ![t].found = GetUser(n)]
            /\ UNCHANGED <<up, open, users, rec, db, database>>

(* correctPassword: removeUserListByFD, then loginUser on the account. *)
Pass(t, p) ==
  /\ Reads(t, "pass")
  /\ IF p = rec[th[t].found].password
       THEN /\ users' = RemoveByFD(users, th[t].fd)
            /\ rec' = [rec EXCEPT ![th[t].found].connected = TRUE,
                                  ![th[t].found].fd = rec[th[t].cur].fd]
            /\ th' = [th EXCEPT ![t].pc = "enter"]
            /\ UNCHANGED <<up, open, db, database>>
       ELSE RefuseAtEnd(t)

(* A message of another verb or length. *)
WrongMessage(t) ==
  \/ Reads(t, "newpass") /\ Refuse(t)
  \/ (Reads(t, "iam") \/ Reads(t, "pass")) /\ RefuseAtEnd(t)

(* loginThread: the record it serves from now on. *)
Enter(t) ==
  /\ th[t].pc = "enter"
  /\ LET r == GetUserByFD(rec[th[t].cur].fd)
     IN IF r = NoRec
          THEN Halt
          ELSE /\ th' = [th EXCEPT ![t] =
                      [Idle EXCEPT !.pc = "cmd", !.cur = r, !.fd = rec[r].fd]]
               /\ UNCHANGED <<up, open, users, rec, db, database>>

-----------------------------------------------------------------------------
(* The end of a connection. *)

(* disconnectUser's first write. *)
DisconnectUser(t, r, label) ==
  /\ rec' = [rec EXCEPT ![r].connected = FALSE]
  /\ th' = [th EXCEPT ![t].pc = label, ![t].found = r]
  /\ UNCHANGED <<up, open, users, db, database>>

(* BYE: the record is looked up by the descriptor. *)
Bye(t) ==
  /\ Reads(t, "cmd")
  /\ IF GetUserByFD(th[t].fd) = NoRec
       THEN Halt
       ELSE DisconnectUser(t, GetUserByFD(th[t].fd), "offBye")

(* A read returns nothing: handleClientCrash looks the record up by its name *)
(* and falls back on its own.  During a login the name is empty, and so is   *)
(* that of every other connection's record.                                  *)
Crash(t) ==
  /\ th[t].pc \in {"hello", "iam", "newpass", "pass", "cmd"}
  /\ LET hit == GetUser(rec[th[t].cur].name)
     IN DisconnectUser(t, IF hit = NoRec THEN th[t].cur ELSE hit, "off")

(* disconnectUser's last write and what follows it.  A BYE closes currfd;    *)
(* handleClientCrash closes the record's descriptor, which is -1 now.        *)
Off(t) ==
  /\ th[t].pc \in {"off", "offBye"}
  /\ rec' = [rec EXCEPT ![th[t].found].fd = NoFd]
  /\ open' = IF th[t].pc = "offBye" THEN open \ {th[t].fd} ELSE open
  /\ th' = [th EXCEPT ![t] = Idle]
  /\ UNCHANGED <<up, users, db, database>>

-----------------------------------------------------------------------------
(* When two threads get in each other's way: both lead a login that names    *)
(* one account; or both have the database open; or one disconnects the       *)
(* account the other logs in to, or the record of the other's connection.    *)

InLogin(t) ==
  th[t].pc \in {"hello", "iam", "newpass", "pass", "save", "insert", "close", "enter"}

Clashing ==
  \E t, u \in Thread : t # u /\ InLogin(u) /\
    \/ InLogin(t) /\ th[t].nm = th[u].nm /\ th[t].nm # NoName
    \/ AtDatabase(t) /\ AtDatabase(u)
    \/ /\ th[t].pc \in {"off", "offBye"}
       /\ th[t].found \in {th[u].cur, th[u].found}

Connection(t) ==
  \/ \E f \in Fd : Accept(t, f)
  \/ Hello(t) \/ WrongMessage(t)
  \/ \E n \in Name : IamNew(t, n) \/ Iam(t, n)
  \/ \E p \in Password : NewPass(t, p) \/ Pass(t, p)
  \/ OpenDatabase(t) \/ Insert(t) \/ CloseDatabase(t) \/ UseAfterClose(t) \/ Enter(t)
  \/ Bye(t) \/ Crash(t) \/ Off(t)

Next ==
  /\ \/ \E t \in Thread : Connection(t)
     \/ AcceptFails \/ Stop \/ Start
  /\ clash' = (clash \/ Clashing')

Spec == Init /\ [][Next]_vars

-----------------------------------------------------------------------------
PC == {"idle", "hello", "iam", "newpass", "save", "insert", "close", "pass", "enter",
       "cmd", "off", "offBye"}
Record == [name : Name \cup {NoName}, connected : BOOLEAN, fd : Fd \cup {NoFd},
           password : Password \cup {NoPassword}]

(* A record is in the list once; the table has one row for a name. *)
TypeOK ==
  /\ up \in BOOLEAN /\ open \subseteq Fd /\ clash \in BOOLEAN
  /\ users \in Seq(Rec) /\ IsInjective(users)
  /\ rec \in [Rec -> Record]
  /\ db \in Seq([name : Name, password : Valid]) /\ database \in {"open", "closed"}
  /\ \A i, j \in DOMAIN db : db[i].name = db[j].name => i = j
  /\ th \in [Thread -> [pc : PC, fd : Fd \cup {NoFd}, cur : Rec \cup {NoRec},
                        nm : Name \cup {NoName}, found : Rec \cup {NoRec}]]

(* An account counts from its insert on. *)
Visible ==
  {r \in ToSet(users) : /\ rec[r].name # NoName
                        /\ \A t \in Thread : th[t].pc \in {"save", "insert"} => th[t].cur # r}

Accounts ==
  IF up THEN {[name |-> rec[r].name, password |-> rec[r].password] : r \in Visible}
        ELSE ToSet(db)

Session == [n \in Name |->
  IF \E r \in Visible : rec[r].name = n /\ rec[r].connected
    THEN rec[CHOOSE r \in Visible : rec[r].name = n /\ rec[r].connected].fd
    ELSE NoFd]

Chat == INSTANCE ChatService WITH
  accounts <- Accounts, session <- Session, Persistent <- HasAccounts

(* Without a mutex the server keeps ChatService's promise as long as no two  *)
(* threads are at work on one account, on one connection's record or in      *)
(* addUserToDatabase: logins to different accounts, commands, clients that   *)
(* vanish, records they leave behind, leaked sockets and restarts do no      *)
(* harm.  Registrations of different names do, if their inserts overlap.     *)
ServesUntilClash == Chat!Init /\ [][Chat!Next \/ clash']_(Chat!vars)
=============================================================================
