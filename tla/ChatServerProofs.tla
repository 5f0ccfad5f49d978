-------------------------- MODULE ChatServerProofs --------------------------
(***************************************************************************)
(* Theorems of ChatServer, for any accounts, passwords, descriptors,       *)
(* records and threads, with or without a pool and an accounts file.       *)
(*                                                                         *)
(* The invariant has one idea: a socket has one owner at a time.  It waits *)
(* in the login queue, or is in the hands of one login thread, or of the   *)
(* main thread, or is the descriptor of one user; and it changes hands     *)
(* only where the code holds the mutex.  Then no removal by descriptor     *)
(* ever finds a user, the list never shrinks, and what a thread has read   *)
(* from it before a password prompt is still true after it.                *)
(***************************************************************************)
EXTENDS ChatServer, TLAPS

InsidePC == {"newpass", "savedb", "pass", "loginFd", "motd", "unlock"}

(* The mutex is held by the thread that is inside its critical section. *)
MutexInv == \A t \in Thread : pc[t] \in InsidePC <=> mutex = t

Active(t) == pc[t] \notin {"idle", "dead"}

(* The thread's login has succeeded: its socket is a user's. *)
HasUser(t) == pc[t] \in {"savedb", "motd"}

(* A listed record has a name of its own and, while its user is connected, a *)
(* socket of its own.                                                        *)
RecordInv(r) ==
  /\ user[r].name \in Name /\ user[r].password \in Valid
  /\ user[r].fd # NoFd => user[r].connected /\ sock[user[r].fd] # "free"
  /\ user[r].connected =>
       user[r].fd # NoFd \/ \E t \in Thread : pc[t] = "loginFd" /\ found[t] = r

DistinctInv ==
  \A r, s \in listed :
    /\ user[r].name = user[s].name => r = s
    /\ user[r].fd = user[s].fd /\ user[r].fd # NoFd => r = s

RecordsInv == DistinctInv /\ \A r \in listed : RecordInv(r)

(* What a thread has learned from the list stays true while it needs it. *)
ThreadInv(t) ==
  /\ IF Active(t) THEN fdOf[t] \in Fd /\ sock[fdOf[t]] # "free" ELSE fdOf[t] = NoFd
  /\ pc[t] \in {"lockNew", "newpass", "savedb", "lockIam"} => nm[t] \in Name
  /\ pc[t] = "newpass" => \A r \in listed : user[r].name # nm[t]
  /\ pc[t] \in {"savedb", "pass", "loginFd", "motd"} =>
       found[t] \in listed /\ user[found[t]].name = nm[t]
  /\ pc[t] = "pass" => ~user[found[t]].connected
  /\ pc[t] = "loginFd" => user[found[t]].connected /\ user[found[t]].fd = NoFd
  /\ HasUser(t) => user[found[t]].fd = fdOf[t]

ThreadsInv == \A t \in Thread : ThreadInv(t)

(* No login thread, no place in the queue and no user has socket f. *)
Unclaimed(f) ==
  /\ f \in Fd /\ sock[f] # "free"
  /\ \A t \in Thread : Active(t) => fdOf[t] # f
  /\ \A i \in 1..Len(loginQ) : loginQ[i] # f
  /\ \A r \in listed : user[r].fd # f

ThreadsApart ==
  \A t \in Thread : Active(t) =>
    /\ \A u \in Thread : Active(u) /\ fdOf[u] = fdOf[t] => u = t
    /\ ~HasUser(t) => \A r \in listed : user[r].fd # fdOf[t]

QueueApart ==
  \A i \in 1..Len(loginQ) :
    /\ sock[loginQ[i]] # "free"
    /\ \A j \in 1..Len(loginQ) : loginQ[j] = loginQ[i] => i = j
    /\ \A t \in Thread : Active(t) => fdOf[t] # loginQ[i]
    /\ \A r \in listed : user[r].fd # loginQ[i]

HandlingPC == {"read", "listu", "msg", "msgCheck", "msgSend", "bye"}

MainInv ==
  /\ mpc \in {"enqueue", "uoffBye", "close"} => Unclaimed(currfd)
  /\ mpc \in HandlingPC =>
       cur \in listed /\ currfd \in Fd /\ user[cur].fd = currfd
  /\ mpc \in {"uoff", "uoffBye", "close"} => cur \in listed
  /\ mpc \in {"msgCheck", "msgSend"} => to \in listed

(* The table has the accounts of the list, but for one that a thread is      *)
(* about to insert.                                                          *)
DbInv ==
  /\ up /\ HasAccounts => db = {Row(r) : r \in Visible}
  /\ ~HasAccounts => db = {}
  /\ \A a, b \in db : a.name = b.name => a = b

(* Without a process there are no threads, no connections and no list. *)
DownInv ==
  ~up => /\ listed = {} /\ loginQ = <<>> /\ mpc = "build"
         /\ \A t \in Thread : pc[t] = "idle"
         /\ \A f \in Fd : sock[f] = "free"

ServerInv ==
  /\ MutexInv /\ RecordsInv /\ ThreadsInv /\ ThreadsApart /\ QueueApart
  /\ MainInv /\ DbInv /\ DownInv

IInv == TypeOK /\ ServerInv

-----------------------------------------------------------------------------
(* The steps by what they leave alone. *)

(* The main thread's steps that only move the main thread. *)
MainMove ==
  \/ Build \/ EndRound \/ ReadTime \/ ReadListu \/ Listu \/ ReadMsg \/ CheckTo
  \/ SendMsg \/ ReadBye \/ UoffBye \/ UoffCrash
  \/ \E f \in Fd : Handle(f)
  \/ \E n \in Name : LookupTo(n)

(* A login thread's steps that only move the thread, the mutex or the table. *)
ThreadMove(t) ==
  \/ ReadWolfie(t) \/ ReadIamOther(t) \/ NewPassRefused(t) \/ LockNew(t)
  \/ LockIam(t) \/ SaveDb(t) \/ SendMotd(t) \/ Unlock(t) \/ RefusedTail(t)
  \/ CrashOutside(t) \/ CrashInside(t)
  \/ \E n \in Name, label \in {"lockNew", "lockIam"} : ReadIam(t, n, label)
  \/ \E p \in Password : PassRefused(t, p)

(* Every step is one of these. *)
LEMMA StepCases ==
  ASSUME [Next]_vars
  PROVE  \/ MainMove
         \/ \E t \in Thread : ThreadMove(t) \/ TakeConnection(t) \/ LoginFd(t)
         \/ \E t \in Thread, p \in Valid, r \in Rec : NewPass(t, p, r)
         \/ \E t \in Thread, p \in Password : Pass(t, p)
         \/ \E t \in Thread, f \in Fd : Accept(f, t)
         \/ \E f \in Fd : AcceptPooled(f)
         \/ \E f \in Fd : Vanish(f)
         \/ Enqueue \/ Bye \/ ClientCrash \/ CloseBye
         \/ Halt \/ Start \/ UNCHANGED vars
BY DEF Next, ServerNext, LoginReads, LoginSteps, ClientReads, MainSteps, Arrivals,
       Stops, MainMove, ThreadMove, Shutdown, Interrupt, Kill, AcceptFails

LEMMA MainMoveFrame ==
  ASSUME MainMove
  PROVE  UNCHANGED <<up, mutex, sock, listed, user, db, loginQ, pc, fdOf, nm, found>>
BY DEF MainMove, Build, EndRound, ReadTime, ReadListu, Listu, ReadMsg, CheckTo, SendMsg,
       ReadBye, UoffBye, UoffCrash, Handle, LookupTo, threadVars, listVars

(* The process ends: nothing is left of it but the table. *)
LEMMA HaltFrame ==
  ASSUME Halt
  PROVE  /\ up' = FALSE /\ mutex' = Nobody /\ listed' = {} /\ db' = db
         /\ user' = [r \in Rec |-> Blank] /\ sock' = [f \in Fd |-> "free"]
         /\ loginQ' = <<>> /\ pc' = [t \in Thread |-> "idle"]
         /\ fdOf' = [t \in Thread |-> NoFd] /\ nm' = [t \in Thread |-> NoName]
         /\ found' = [t \in Thread |-> NoRec]
         /\ mpc' = "build" /\ todo' = {} /\ currfd' = NoFd /\ cur' = NoRec
         /\ to' = NoRec
BY DEF Halt, Fresh

LEMMA GetUserFinds ==
  ASSUME TypeOK, NEW n
  PROVE  \/ GetUser(n) = NoRec /\ \A r \in listed : user[r].name # n
         \/ GetUser(n) \in listed /\ user[GetUser(n)].name = n
<1>1. CASE \E r \in listed : user[r].name = n
  BY <1>1 DEF GetUser
<1>2. CASE ~\E r \in listed : user[r].name = n
  BY <1>2 DEF GetUser
<1>3. QED
  BY <1>1, <1>2

LEMMA GetUserByFDFinds ==
  ASSUME TypeOK, NEW f
  PROVE  \/ GetUserByFD(f) = NoRec /\ \A r \in listed : user[r].fd # f
         \/ GetUserByFD(f) \in listed /\ user[GetUserByFD(f)].fd = f
<1>1. CASE \E r \in listed : user[r].fd = f
  BY <1>1 DEF GetUserByFD
<1>2. CASE ~\E r \in listed : user[r].fd = f
  BY <1>2 DEF GetUserByFD
<1>3. QED
  BY <1>1, <1>2

(* removeUserListByFD finds nothing under the descriptor of a login. *)
LEMMA NothingRemoved ==
  ASSUME TypeOK, ThreadsApart, NEW t \in Thread, Active(t), ~HasUser(t)
  PROVE  RemainWithoutFD(fdOf[t]) = listed
BY DEF ThreadsApart, RemainWithoutFD

ThreadFrame(t) ==
  /\ UNCHANGED <<up, sock, listed, user, loginQ, mpc, todo, currfd, cur, to>>
  /\ \A u \in Thread \ {t} : /\ pc'[u] = pc[u] /\ fdOf'[u] = fdOf[u]
                             /\ nm'[u] = nm[u] /\ found'[u] = found[u]
  /\ Active(t) /\ pc[t] # "loginFd" /\ pc'[t] # "loginFd"
  /\ Active(t)' => fdOf'[t] = fdOf[t] /\ (HasUser(t)' <=> HasUser(t))

LEMMA ThreadMoveFrame ==
  ASSUME IInv, NEW t \in Thread, ThreadMove(t)
  PROVE  ThreadFrame(t)
<1>1. ~HasUser(t) /\ Active(t) => RemainWithoutFD(fdOf[t]) = listed
  BY NothingRemoved DEF IInv, ServerInv
<1> USE <1>1
    DEF IInv, TypeOK, ThreadFrame, Active, HasUser, Goto, listVars, mainVars, ThreadPC
<1>2. CASE ReadWolfie(t) \/ ReadIamOther(t) \/ SaveDb(t) \/ Unlock(t)
  BY <1>2 DEF ReadWolfie, ReadIamOther, SaveDb, Unlock
<1>3. CASE NewPassRefused(t)
  BY <1>3 DEF NewPassRefused
<1>4. CASE LockNew(t)
  BY <1>4 DEF LockNew
<1>5. CASE LockIam(t)
  BY <1>5 DEF LockIam
<1>6. CASE SendMotd(t)
  BY <1>6 DEF SendMotd, Leave
<1>7. CASE RefusedTail(t)
  BY <1>7 DEF RefusedTail, Leave
<1>8. CASE CrashOutside(t) \/ CrashInside(t)
  BY <1>8 DEF CrashOutside, CrashInside, Exit
<1>9. ASSUME NEW n \in Name, NEW label \in {"lockNew", "lockIam"}, ReadIam(t, n, label)
      PROVE  ThreadFrame(t)
  BY <1>9 DEF ReadIam
<1>10. ASSUME NEW p \in Password, PassRefused(t, p)
       PROVE  ThreadFrame(t)
  BY <1>10 DEF PassRefused
<1>11. QED
  BY <1>2, <1>3, <1>4, <1>5, <1>6, <1>7, <1>8, <1>9, <1>10 DEF ThreadMove

-----------------------------------------------------------------------------
(* Types.  Two of them need the invariant: the descriptors that Build watches *)
(* are real because no connected user is without one while the mutex is free, *)
(* and the rows of the table come from threads that know a name.              *)
LEMMA RecordUpdate ==
  ASSUME NEW u \in [Rec -> Record], NEW r, NEW c \in BOOLEAN, NEW f \in Fd \cup {NoFd}
  PROVE  /\ [u EXCEPT ![r].connected = c] \in [Rec -> Record]
         /\ [u EXCEPT ![r].fd = f] \in [Rec -> Record]
         /\ [u EXCEPT ![r].connected = c, ![r].fd = f] \in [Rec -> Record]
<1>1. ASSUME NEW s \in Rec PROVE u[s] \in Record
  OBVIOUS
<1>2. ASSUME NEW v \in Record
      PROVE  /\ [v EXCEPT !.connected = c] \in Record
             /\ [v EXCEPT !.fd = f] \in Record
             /\ [[v EXCEPT !.connected = c] EXCEPT !.fd = f] \in Record
  BY DEF Record
<1>3. QED
  BY <1>1, <1>2

LEMMA BlankRecord == Blank \in Record
BY DEF Blank, Record

LEMMA TypeStep == ASSUME IInv, [Next]_vars PROVE TypeOK'
<1> USE ServerAssumption DEF TypeOK, MainPC, ThreadPC, listVars, threadVars, mainVars
<1>0. TypeOK /\ MutexInv /\ RecordsInv /\ ThreadsInv /\ MainInv
  BY DEF IInv, ServerInv
<1>1. CASE Build
  <2>1. ASSUME NEW r \in listed, user[r].connected PROVE user[r].fd \in Fd
    BY <1>0, <1>1, <2>1
       DEF Build, MutexInv, InsidePC, RecordsInv, RecordInv, Record
  <2>2. QED
    BY <1>0, <1>1, <2>1 DEF Build, MainGoto
<1>2. CASE MainMove /\ ~Build
  <2>1. CASE \E f \in Fd : Handle(f)
    <3>1. PICK f \in Fd : Handle(f)
      BY <2>1
    <3>2. GetUserByFD(f) = NoRec \/ GetUserByFD(f) \in listed
      BY <1>0, GetUserByFDFinds
    <3>3. QED
      BY <1>0, <3>1, <3>2 DEF Handle, MainGoto, Record
  <2>2. CASE \E n \in Name : LookupTo(n)
    <3>1. PICK n \in Name : LookupTo(n)
      BY <2>2
    <3>2. GetUser(n) = NoRec \/ GetUser(n) \in listed
      BY <1>0, GetUserFinds
    <3>3. QED
      BY <1>0, <3>1, <3>2 DEF LookupTo, DoneWithClient, MainGoto
  <2>3. QED
    BY <1>0, <1>2, <2>1, <2>2
       DEF MainMove, EndRound, ReadTime, ReadListu, Listu, ReadMsg, CheckTo, SendMsg,
           ReadBye, UoffBye, UoffCrash, DoneWithClient, MainGoto
<1>3. ASSUME NEW t \in Thread, ThreadMove(t) PROVE TypeOK'
  <2>1. CASE SaveDb(t)
    <3>1. /\ nm[t] \in Name /\ found[t] \in listed
          /\ user[found[t]].password \in Valid
      BY <1>0, <2>1 DEF SaveDb, ThreadsInv, ThreadInv, RecordsInv, RecordInv
    <3>2. QED
      BY <1>0, <2>1, <3>1 DEF SaveDb, Goto
  <2>2. CASE LockIam(t)
    <3>1. GetUser(nm[t]) = NoRec \/ GetUser(nm[t]) \in listed
      BY <1>0, GetUserFinds
    <3>2. QED
      BY <1>0, <2>2, <3>1 DEF LockIam, Goto, RemainWithoutFD
  <2>3. CASE ReadWolfie(t) \/ ReadIamOther(t) \/ NewPassRefused(t) \/ LockNew(t)
             \/ SendMotd(t) \/ Unlock(t) \/ RefusedTail(t)
    BY <1>0, <2>3
       DEF ReadWolfie, ReadIamOther, NewPassRefused, LockNew, SendMotd, Unlock,
           RefusedTail, Goto, Leave, RemainWithoutFD
  <2>4. CASE CrashOutside(t) \/ CrashInside(t)
    BY <1>0, <2>4 DEF CrashOutside, CrashInside, Exit, Goto
  <2>5. CASE \E n \in Name, label \in {"lockNew", "lockIam"} : ReadIam(t, n, label)
    BY <1>0, <2>5 DEF ReadIam, Goto
  <2>6. CASE \E p \in Password : PassRefused(t, p)
    BY <1>0, <2>6 DEF PassRefused, Goto
  <2>7. QED
    BY <1>3, <2>1, <2>2, <2>3, <2>4, <2>5, <2>6 DEF ThreadMove
<1>4. ASSUME NEW t \in Thread, TakeConnection(t) PROVE TypeOK'
  <2>1. Head(loginQ) \in Fd /\ Tail(loginQ) \in Seq(Fd)
    BY <1>0, <1>4 DEF TakeConnection
  <2>2. QED
    BY <1>0, <1>4, <2>1 DEF TakeConnection, Goto
<1>5. ASSUME NEW t \in Thread, LoginFd(t) PROVE TypeOK'
  <2>1. user' \in [Rec -> Record]
    BY <1>0, <1>5, RecordUpdate DEF LoginFd
  <2>2. QED
    BY <1>0, <1>5, <2>1 DEF LoginFd, Goto
<1>6. ASSUME NEW t \in Thread, NEW p \in Valid, NEW r \in Rec, NewPass(t, p, r)
      PROVE  TypeOK'
  <2>1. [name |-> nm[t], connected |-> TRUE, fd |-> fdOf[t], password |-> p] \in Record
    BY <1>0, <1>6 DEF Record
  <2>2. user' \in [Rec -> Record]
    BY <1>0, <1>6, <2>1 DEF NewPass
  <2>3. QED
    BY <1>0, <1>6, <2>2 DEF NewPass, Goto
<1>7. ASSUME NEW t \in Thread, NEW p \in Password, Pass(t, p) PROVE TypeOK'
  <2>1. user' \in [Rec -> Record]
    BY <1>0, <1>7, RecordUpdate DEF Pass
  <2>2. QED
    BY <1>0, <1>7, <2>1 DEF Pass, Goto, RemainWithoutFD
<1>8. ASSUME NEW t \in Thread, NEW f \in Fd, Accept(f, t) PROVE TypeOK'
  BY <1>0, <1>8 DEF Accept, Goto
<1>9. CASE \E f \in Fd : AcceptPooled(f) \/ Vanish(f)
  BY <1>0, <1>9 DEF AcceptPooled, Vanish, MainGoto
<1>10. CASE Enqueue
  <2>1. Append(loginQ, currfd) \in Seq(Fd)
    BY <1>0, <1>10 DEF Enqueue, MainAt, MainInv, Unclaimed
  <2>2. QED
    BY <1>0, <1>10, <2>1 DEF Enqueue, MainGoto
<1>11. CASE Bye \/ ClientCrash
  <2>0. PICK r : user' = [user EXCEPT ![r].connected = FALSE, ![r].fd = NoFd]
    BY <1>11 DEF Bye, ClientCrash, DisconnectUser
  <2>1. user' \in [Rec -> Record]
    BY <1>0, <2>0, RecordUpdate
  <2>2. QED
    BY <1>0, <1>11, <2>1 DEF Bye, ClientCrash, MainGoto
<1>12. CASE CloseBye
  BY <1>0, <1>12 DEF CloseBye, DoneWithClient, MainGoto
<1>13. CASE Halt
  BY <1>0, <1>13, HaltFrame, BlankRecord
<1>14. CASE Start
  <2>1. PICK load \in [db -> Rec] :
          /\ listed' = {load[a] : a \in db}
          /\ user' = [r \in Rec |->
               IF \E a \in db : load[a] = r
                 THEN LET a == CHOOSE b \in db : load[b] = r
                      IN [Blank EXCEPT !.name = a.name, !.password = a.password]
                 ELSE Blank]
    BY <1>14 DEF Start
  <2>2. ASSUME NEW a \in db
        PROVE  [Blank EXCEPT !.name = a.name, !.password = a.password] \in Record
    BY <1>0 DEF Blank, Record
  <2>3. user' \in [Rec -> Record]
    BY <2>1, <2>2, BlankRecord
  <2>4. up' = TRUE /\ UNCHANGED <<mutex, sock, db, loginQ, threadVars, mainVars>>
    BY <1>14 DEF Start
  <2>5. listed' \subseteq Rec
    BY <2>1
  <2>6. QED
    BY <1>0, <2>3, <2>4, <2>5
<1>15. CASE UNCHANGED vars
  BY <1>0, <1>15 DEF vars, diskVars
<1>16. QED
  BY StepCases, <1>1, <1>2, <1>3, <1>4, <1>5, <1>6, <1>7, <1>8, <1>9, <1>10, <1>11,
     <1>12, <1>13, <1>14, <1>15

-----------------------------------------------------------------------------
(* The mutex is taken by LockNew and LockIam, released by SendMotd and        *)
(* Unlock, and lost by CrashInside.                                           *)
LEMMA MutexStep == ASSUME IInv, [Next]_vars PROVE MutexInv'
<1> USE ServerAssumption
    DEF TypeOK, MutexInv, InsidePC, ThreadPC, Goto, listVars, threadVars, mainVars
<1>0. TypeOK /\ MutexInv
  BY DEF IInv, ServerInv
<1>1. CASE MainMove
  BY <1>0, <1>1, MainMoveFrame
<1>2. ASSUME NEW t \in Thread, ThreadMove(t) PROVE MutexInv'
  <2>1. CASE ReadWolfie(t) \/ ReadIamOther(t) \/ NewPassRefused(t) \/ SaveDb(t)
    BY <1>0, <2>1 DEF ReadWolfie, ReadIamOther, NewPassRefused, SaveDb
  <2>2. CASE LockNew(t) \/ LockIam(t)
    BY <1>0, <2>2 DEF LockNew, LockIam
  <2>3. CASE SendMotd(t) \/ Unlock(t) \/ RefusedTail(t)
    BY <1>0, <2>3 DEF SendMotd, Unlock, RefusedTail, Leave
  <2>4. CASE CrashOutside(t) \/ CrashInside(t)
    BY <1>0, <2>4 DEF CrashOutside, CrashInside, Exit
  <2>5. CASE \E n \in Name, label \in {"lockNew", "lockIam"} : ReadIam(t, n, label)
    BY <1>0, <2>5 DEF ReadIam
  <2>6. CASE \E p \in Password : PassRefused(t, p)
    BY <1>0, <2>6 DEF PassRefused
  <2>7. QED
    BY <1>2, <2>1, <2>2, <2>3, <2>4, <2>5, <2>6 DEF ThreadMove
<1>3. ASSUME NEW t \in Thread, TakeConnection(t) \/ LoginFd(t) PROVE MutexInv'
  BY <1>0, <1>3 DEF TakeConnection, LoginFd
<1>4. ASSUME NEW t \in Thread, NEW p \in Valid, NEW r \in Rec, NewPass(t, p, r)
      PROVE  MutexInv'
  BY <1>0, <1>4 DEF NewPass
<1>5. ASSUME NEW t \in Thread, NEW p \in Password, Pass(t, p) PROVE MutexInv'
  BY <1>0, <1>5 DEF Pass
<1>6. ASSUME NEW t \in Thread, NEW f \in Fd, Accept(f, t) PROVE MutexInv'
  BY <1>0, <1>6 DEF Accept
<1>7. CASE \E f \in Fd : AcceptPooled(f) \/ Vanish(f)
  BY <1>0, <1>7 DEF AcceptPooled, Vanish
<1>8. CASE Enqueue \/ Bye \/ ClientCrash \/ CloseBye \/ Start
  BY <1>0, <1>8 DEF Enqueue, Bye, ClientCrash, CloseBye, Start
<1>9. CASE Halt
  BY <1>0, <1>9, HaltFrame
<1>10. CASE UNCHANGED vars
  BY <1>0, <1>10 DEF vars
<1>11. QED
  BY StepCases, <1>1, <1>2, <1>3, <1>4, <1>5, <1>6, <1>7, <1>8, <1>9, <1>10

(* Only one thread at a time is inside, and none while the mutex is free. *)
LEMMA InsideAlone ==
  ASSUME MutexInv
  PROVE  /\ \A t, u \in Thread : pc[t] \in InsidePC /\ pc[u] \in InsidePC => t = u
         /\ mutex = Nobody => \A t \in Thread : pc[t] \notin InsidePC
BY ServerAssumption DEF MutexInv

(* Nothing is listed under the socket of a login that has not succeeded. *)
LEMMA RecordsStep == ASSUME IInv, TypeOK', [Next]_vars PROVE RecordsInv'
<1> USE DEF RecordsInv, DistinctInv, RecordInv
<1>0. /\ TypeOK /\ RecordsInv /\ ThreadsInv /\ ThreadsApart /\ MainInv /\ MutexInv
      /\ user \in [Rec -> Record] /\ listed \subseteq Rec
      /\ pc \in [Thread -> ThreadPC] /\ found \in [Thread -> Rec \cup {NoRec}]
      /\ sock \in [Fd -> {"free", "live", "gone"}]
  BY DEF IInv, ServerInv, TypeOK
<1>1. CASE MainMove
  BY <1>0, <1>1, MainMoveFrame
<1>2. ASSUME NEW t \in Thread, ThreadMove(t) PROVE RecordsInv'
  <2>1. ThreadFrame(t)
    BY <1>2, ThreadMoveFrame
  <2>2. QED
    BY <1>0, <2>1 DEF ThreadFrame
<1>3. ASSUME NEW t \in Thread, TakeConnection(t) PROVE RecordsInv'
  BY <1>0, <1>3 DEF TakeConnection, Goto, listVars
<1>4. ASSUME NEW t \in Thread, LoginFd(t) PROVE RecordsInv'
  <2> DEFINE me == found[t]
  <2>1. /\ pc[t] = "loginFd" /\ me \in listed /\ listed' = listed /\ sock' = sock
        /\ user' = [user EXCEPT ![me].fd = fdOf[t]]
        /\ pc' = [pc EXCEPT ![t] = "motd"] /\ found' = found
    BY <1>4 DEF LoginFd, Goto, IInv, ServerInv, ThreadsInv, ThreadInv
  <2>2. user[me].connected /\ fdOf[t] # NoFd /\ sock[fdOf[t]] # "free"
    BY <1>0, <2>1, ServerAssumption DEF ThreadsInv, ThreadInv, Active
  <2>3. \A r \in listed : user[r].fd # fdOf[t]
    BY <1>0, <2>1 DEF ThreadsApart, Active, HasUser
  <2>4. \A u \in Thread : pc[u] = "loginFd" => u = t
    BY <1>0, <2>1, InsideAlone DEF InsidePC
  <2>5. /\ user'[me].fd = fdOf[t] /\ user'[me].connected = user[me].connected
        /\ user'[me].name = user[me].name /\ user'[me].password = user[me].password
        /\ \A r \in Rec \ {me} : user'[r] = user[r]
    BY <1>0, <2>1 DEF Record
  <2>6. \A r \in listed : RecordInv(r)'
    BY <1>0, <2>1, <2>2, <2>4, <2>5
  <2>7. DistinctInv'
    BY <1>0, <2>1, <2>3, <2>5
  <2>8. QED
    BY <2>1, <2>6, <2>7

<1>5. ASSUME NEW t \in Thread, NEW p \in Valid, NEW r \in Rec, NewPass(t, p, r)
      PROVE  RecordsInv'
  <2>1. /\ pc[t] = "newpass" /\ r \in Rec \ listed /\ sock' = sock
        /\ user' = [user EXCEPT ![r] = [name |-> nm[t], connected |-> TRUE,
                                        fd |-> fdOf[t], password |-> p]]
        /\ listed' = listed \cup {r}
        /\ pc' = [pc EXCEPT ![t] = "savedb"] /\ found' = [found EXCEPT ![t] = r]
    BY <1>5 DEF NewPass, Goto
  <2>2. /\ nm[t] \in Name /\ fdOf[t] # NoFd /\ sock[fdOf[t]] # "free"
        /\ \A s \in listed : user[s].name # nm[t] /\ user[s].fd # fdOf[t]
    BY <1>0, <2>1, ServerAssumption
       DEF ThreadsInv, ThreadInv, ThreadsApart, Active, HasUser
  <2>3. \A u \in Thread : pc[u] # "loginFd"
    BY <1>0, <2>1, InsideAlone DEF InsidePC
  <2>4. /\ user'[r] = [name |-> nm[t], connected |-> TRUE,
                       fd |-> fdOf[t], password |-> p]
        /\ \A s \in listed : user'[s] = user[s]
    BY <1>0, <2>1
  <2>5. \A s \in listed' : RecordInv(s)'
    BY <1>0, <2>1, <2>2, <2>3, <2>4
  <2>6. DistinctInv'
    BY <1>0, <2>1, <2>2, <2>4
  <2>7. QED
    BY <2>5, <2>6
<1>6. ASSUME NEW t \in Thread, NEW p \in Password, Pass(t, p) PROVE RecordsInv'
  <2> DEFINE me == found[t]
  <2>1. /\ pc[t] = "pass" /\ sock' = sock /\ found' = found
        /\ user' = [user EXCEPT ![me].connected = TRUE]
        /\ pc' = [pc EXCEPT ![t] = "loginFd"]
    BY <1>6 DEF Pass, Goto
  <2>2. listed' = listed
    BY <1>0, <1>6, NothingRemoved DEF Pass, Active, HasUser
  <2>3. me \in listed /\ ~user[me].connected
    BY <1>0, <2>1 DEF ThreadsInv, ThreadInv
  <2>4. /\ user'[me].connected = TRUE /\ user'[me].fd = user[me].fd
        /\ user'[me].name = user[me].name /\ user'[me].password = user[me].password
        /\ \A r \in Rec \ {me} : user'[r] = user[r]
    BY <1>0, <2>1, <2>3 DEF Record
  <2>5. \A u \in Thread : pc[u] # "loginFd"
    BY <1>0, <2>1, InsideAlone DEF InsidePC
  <2>6. \A r \in listed : RecordInv(r)'
    BY <1>0, <2>1, <2>3, <2>4, <2>5
  <2>7. DistinctInv'
    BY <1>0, <2>2, <2>3, <2>4
  <2>8. QED
    BY <2>2, <2>6, <2>7
<1>7. ASSUME NEW t \in Thread, NEW f \in Fd, Accept(f, t) PROVE RecordsInv'
  <2>1. /\ UNCHANGED <<listed, user, found>>
        /\ sock[f] = "free" /\ sock' = [sock EXCEPT ![f] = "live"]
        /\ pc[t] = "idle" /\ pc' = [pc EXCEPT ![t] = "wolfie"]
    BY <1>7 DEF Accept, Goto, listVars
  <2>2. QED
    BY <1>0, <2>1 DEF Record
<1>8. CASE \E f \in Fd : AcceptPooled(f) \/ Vanish(f)
  <2>1. PICK f \in Fd, s \in {"live", "gone"} :
          /\ sock' = [sock EXCEPT ![f] = s]
          /\ UNCHANGED <<listed, user, found, pc>>
    BY <1>8 DEF AcceptPooled, Vanish, listVars, threadVars
  <2>2. QED
    BY <1>0, <2>1 DEF Record
<1>9. CASE Enqueue
  BY <1>0, <1>9 DEF Enqueue, listVars, threadVars
<1>10. CASE Bye \/ ClientCrash
  <2>1. PICK r : /\ user' = [user EXCEPT ![r].connected = FALSE, ![r].fd = NoFd]
                 /\ UNCHANGED <<listed, sock, pc, found>>
                 /\ mutex = Nobody
    BY <1>10 DEF Bye, ClientCrash, DisconnectUser, threadVars
  <2>2. \A u \in Thread : pc[u] # "loginFd"
    BY <1>0, <2>1, InsideAlone DEF InsidePC
  <2>3. /\ \A s \in Rec : s # r => user'[s] = user[s]
        /\ r \in Rec => /\ user'[r].name = user[r].name
                        /\ user'[r].password = user[r].password
                        /\ user'[r].connected = FALSE /\ user'[r].fd = NoFd
    BY <1>0, <2>1 DEF Record
  <2>4. \A s \in listed : RecordInv(s)'
    BY <1>0, <2>1, <2>2, <2>3
  <2>5. DistinctInv'
    BY <1>0, <2>1, <2>3
  <2>6. QED
    BY <2>1, <2>4, <2>5
<1>11. CASE CloseBye
  <2>1. /\ sock' = [sock EXCEPT ![currfd] = "free"] /\ UNCHANGED <<listed, user, found, pc>>
        /\ \A r \in listed : user[r].fd # currfd
    BY <1>0, <1>11 DEF CloseBye, MainAt, MainInv, Unclaimed, listVars, threadVars
  <2>2. QED
    BY <1>0, <2>1 DEF Record
<1>12. CASE Halt
  BY <1>12, HaltFrame
<1>13. CASE Start
  <2>1. PICK load \in [db -> Rec] :
          /\ \A a, b \in db : load[a] = load[b] => a = b
          /\ listed' = {load[a] : a \in db}
          /\ user' = [r \in Rec |->
               IF \E a \in db : load[a] = r
                 THEN LET a == CHOOSE b \in db : load[b] = r
                      IN [Blank EXCEPT !.name = a.name, !.password = a.password]
                 ELSE Blank]
    BY <1>13 DEF Start
  <2>2. ASSUME NEW a \in db
        PROVE  user'[load[a]] = [Blank EXCEPT !.name = a.name, !.password = a.password]
    <3>1. (CHOOSE b \in db : load[b] = load[a]) = a
      BY <2>1
    <3>2. QED
      BY <2>1, <3>1
  <2>3. ASSUME NEW a \in db
        PROVE  /\ user'[load[a]].name = a.name /\ user'[load[a]].password = a.password
               /\ user'[load[a]].fd = NoFd /\ ~user'[load[a]].connected
               /\ a.name \in Name /\ a.password \in Valid
    <3> DEFINE new == [Blank EXCEPT !.name = a.name, !.password = a.password]
    <3>1. /\ new.name = a.name /\ new.password = a.password
          /\ new.fd = NoFd /\ ~new.connected
      BY DEF Blank
    <3>2. a \in [name : Name, password : Valid]
      BY <1>0 DEF TypeOK
    <3>3. user'[load[a]] = new
      BY <2>2
    <3>4. QED
      BY <3>1, <3>2, <3>3
  <2>4. \A a, b \in db : a.name = b.name => a = b
    BY DEF IInv, ServerInv, DbInv
  <2>5. \A r \in listed' : \E a \in db : r = load[a]
    BY <2>1
  <2>6. QED
    BY <2>3, <2>4, <2>5
<1>14. CASE UNCHANGED vars
  BY <1>0, <1>14 DEF vars, listVars, threadVars
<1>15. QED
  BY StepCases, <1>1, <1>2, <1>3, <1>4, <1>5, <1>6, <1>7, <1>8, <1>9, <1>10, <1>11,
     <1>12, <1>13, <1>14

-----------------------------------------------------------------------------
(* What the threads know.  The records change under the mutex, so that no    *)
(* other thread is inside, where it would know anything about them.          *)
LEMMA ThreadsStep == ASSUME IInv, TypeOK', [Next]_vars PROVE ThreadsInv'
<1> USE DEF ThreadsInv, ThreadInv, Active, HasUser
<1>0. /\ TypeOK /\ RecordsInv /\ ThreadsInv /\ MutexInv
      /\ user \in [Rec -> Record] /\ listed \subseteq Rec
      /\ pc \in [Thread -> ThreadPC] /\ found \in [Thread -> Rec \cup {NoRec}]
      /\ fdOf \in [Thread -> Fd \cup {NoFd}] /\ nm \in [Thread -> Name \cup {NoName}]
      /\ sock \in [Fd -> {"free", "live", "gone"}]
  BY DEF IInv, ServerInv, TypeOK
<1>1. CASE MainMove
  BY <1>0, <1>1, MainMoveFrame
<1>2. ASSUME NEW t \in Thread, ThreadMove(t) PROVE ThreadsInv'
  <2>1. ThreadFrame(t)
    BY <1>2, ThreadMoveFrame
  <2>2. \A u \in Thread \ {t} : ThreadInv(u)'
    BY <1>0, <2>1 DEF ThreadFrame
  <2>3. ThreadInv(t)'
    <3> USE <1>0, <2>1 DEF ThreadFrame, Goto, ThreadPC
    <3>1. CASE ReadWolfie(t) \/ ReadIamOther(t) \/ NewPassRefused(t) \/ Unlock(t)
               \/ SaveDb(t)
      BY <3>1 DEF ReadWolfie, ReadIamOther, NewPassRefused, Unlock, SaveDb
    <3>2. CASE LockNew(t)
      <4>1. \/ GetUser(nm[t]) = NoRec /\ \A r \in listed : user[r].name # nm[t]
            \/ GetUser(nm[t]) # NoRec
        BY GetUserFinds, ServerAssumption
      <4>2. QED
        BY <3>2, <4>1 DEF LockNew
    <3>3. CASE LockIam(t)
      <4>1. \/ GetUser(nm[t]) = NoRec
            \/ GetUser(nm[t]) \in listed /\ user[GetUser(nm[t])].name = nm[t]
        BY GetUserFinds
      <4>2. QED
        BY <3>3, <4>1 DEF LockIam
    <3>4. CASE SendMotd(t) \/ RefusedTail(t) \/ CrashOutside(t) \/ CrashInside(t)
      BY <3>4 DEF SendMotd, RefusedTail, CrashOutside, CrashInside, Leave, Exit
    <3>5. CASE \E n \in Name, label \in {"lockNew", "lockIam"} : ReadIam(t, n, label)
      BY <3>5 DEF ReadIam
    <3>6. CASE \E p \in Password : PassRefused(t, p)
      BY <3>6 DEF PassRefused
    <3>7. QED
      BY <1>2, <3>1, <3>2, <3>3, <3>4, <3>5, <3>6 DEF ThreadMove
  <2>4. QED
    BY <2>2, <2>3
<1>3. ASSUME NEW t \in Thread, TakeConnection(t) PROVE ThreadsInv'
  <2>1. Head(loginQ) \in Fd /\ sock[Head(loginQ)] # "free"
    <3>1. loginQ \in Seq(Fd) /\ loginQ # <<>>
      BY <1>0, <1>3 DEF TypeOK, TakeConnection
    <3>2. 1 \in 1..Len(loginQ) /\ Head(loginQ) = loginQ[1] /\ Head(loginQ) \in Fd
      BY <3>1
    <3>3. QED
      BY <3>2 DEF IInv, ServerInv, QueueApart
  <2>2. QED
    BY <1>0, <1>3, <2>1 DEF TakeConnection, Goto, listVars
<1>4. ASSUME NEW t \in Thread, LoginFd(t) PROVE ThreadsInv'
  <2>1. \A u \in Thread : u # t => pc[u] \notin InsidePC
    BY <1>0, <1>4, InsideAlone DEF LoginFd, InsidePC
  <2>2. \A u \in Thread \ {t} : ThreadInv(u)'
    BY <1>0, <1>4, <2>1 DEF LoginFd, Goto, InsidePC
  <2>3. ThreadInv(t)'
    BY <1>0, <1>4 DEF LoginFd, Goto, Record
  <2>4. QED
    BY <2>2, <2>3
<1>5. ASSUME NEW t \in Thread, NEW p \in Valid, NEW r \in Rec, NewPass(t, p, r)
      PROVE  ThreadsInv'
  <2>1. \A u \in Thread : u # t => pc[u] \notin InsidePC
    BY <1>0, <1>5, InsideAlone DEF NewPass, InsidePC
  <2>2. \A u \in Thread \ {t} : ThreadInv(u)'
    BY <1>0, <1>5, <2>1 DEF NewPass, Goto, InsidePC
  <2>3. ThreadInv(t)'
    BY <1>0, <1>5 DEF NewPass, Goto
  <2>4. QED
    BY <2>2, <2>3
<1>6. ASSUME NEW t \in Thread, NEW p \in Password, Pass(t, p) PROVE ThreadsInv'
  <2>1. \A u \in Thread : u # t => pc[u] \notin InsidePC
    BY <1>0, <1>6, InsideAlone DEF Pass, InsidePC
  <2>2. \A u \in Thread \ {t} : ThreadInv(u)'
    BY <1>0, <1>6, <2>1 DEF Pass, Goto, InsidePC
  <2>3. listed' = listed
    BY <1>0, <1>6, NothingRemoved DEF Pass, IInv, ServerInv
  <2>4. user[found[t]].fd = NoFd
    BY <1>0, <1>6 DEF Pass, RecordsInv, RecordInv
  <2>5. ThreadInv(t)'
    BY <1>0, <1>6, <2>3, <2>4 DEF Pass, Goto, Record
  <2>6. QED
    BY <2>2, <2>5
<1>7. ASSUME NEW t \in Thread, NEW f \in Fd, Accept(f, t) PROVE ThreadsInv'
  BY <1>0, <1>7 DEF Accept, Goto, listVars
<1>8. CASE \E f \in Fd : AcceptPooled(f) \/ Vanish(f)
  <2>1. PICK f \in Fd, s \in {"live", "gone"} :
          /\ sock' = [sock EXCEPT ![f] = s]
          /\ UNCHANGED <<listed, user, pc, fdOf, nm, found>>
    BY <1>8 DEF AcceptPooled, Vanish, listVars, threadVars
  <2>2. QED
    BY <1>0, <2>1
<1>9. CASE Enqueue
  BY <1>0, <1>9 DEF Enqueue, listVars, threadVars
<1>10. CASE Bye \/ ClientCrash
  <2>1. \A u \in Thread : pc[u] \notin InsidePC
    BY <1>0, <1>10, InsideAlone DEF Bye, ClientCrash
  <2>2. UNCHANGED <<listed, sock, pc, fdOf, nm, found>>
    BY <1>10 DEF Bye, ClientCrash, threadVars
  <2>3. QED
    BY <1>0, <2>1, <2>2 DEF InsidePC
<1>11. CASE CloseBye
  <2>1. \A t \in Thread : Active(t) => fdOf[t] # currfd
    BY <1>11 DEF CloseBye, MainAt, IInv, ServerInv, MainInv, Unclaimed
  <2>2. QED
    BY <1>0, <1>11, <2>1 DEF CloseBye, listVars, threadVars
<1>12. CASE Halt
  BY <1>12, HaltFrame
<1>13. CASE Start
  BY <1>13 DEF Start, threadVars, IInv, ServerInv, DownInv
<1>14. CASE UNCHANGED vars
  BY <1>0, <1>14 DEF vars, listVars, threadVars
<1>15. QED
  BY StepCases, <1>1, <1>2, <1>3, <1>4, <1>5, <1>6, <1>7, <1>8, <1>9, <1>10, <1>11,
     <1>12, <1>13, <1>14

-----------------------------------------------------------------------------
(* Owners.  Where the elements of a queue stand after it grew or shrank. *)
LEMMA AppendPositions ==
  ASSUME NEW S, NEW q \in Seq(S), NEW e \in S
  PROVE  /\ Len(Append(q, e)) = Len(q) + 1 /\ Len(q) \in Nat
         /\ \A i \in 1..Len(q) : Append(q, e)[i] = q[i]
         /\ Append(q, e)[Len(q) + 1] = e
OBVIOUS

LEMMA TailPositions ==
  ASSUME NEW S, NEW q \in Seq(S), q # <<>>
  PROVE  /\ Len(q) \in Nat \ {0} /\ Len(Tail(q)) = Len(q) - 1 /\ Head(q) = q[1]
         /\ \A i \in 1..Len(Tail(q)) : Tail(q)[i] = q[i + 1]
OBVIOUS

LEMMA ApartStep == ASSUME IInv, TypeOK', [Next]_vars PROVE ThreadsApart' /\ QueueApart'
<1> USE DEF ThreadsApart, QueueApart, Active, HasUser
<1>0. /\ TypeOK /\ RecordsInv /\ ThreadsInv /\ ThreadsApart /\ QueueApart /\ MainInv
      /\ user \in [Rec -> Record] /\ listed \subseteq Rec
      /\ pc \in [Thread -> ThreadPC] /\ found \in [Thread -> Rec \cup {NoRec}]
      /\ fdOf \in [Thread -> Fd \cup {NoFd}] /\ loginQ \in Seq(Fd)
      /\ sock \in [Fd -> {"free", "live", "gone"}]
      /\ \A i \in 1..Len(loginQ) : loginQ[i] \in Fd
  BY DEF IInv, ServerInv, TypeOK
<1>1. CASE MainMove
  BY <1>0, <1>1, MainMoveFrame
<1>2. ASSUME NEW t \in Thread, ThreadMove(t) PROVE ThreadsApart' /\ QueueApart'
  <2>1. ThreadFrame(t)
    BY <1>2, ThreadMoveFrame
  <2>2. QED
    BY <1>0, <2>1 DEF ThreadFrame
<1>3. ASSUME NEW t \in Thread, TakeConnection(t) PROVE ThreadsApart' /\ QueueApart'
  <2>1. /\ pc[t] = "idle" /\ fdOf' = [fdOf EXCEPT ![t] = Head(loginQ)]
        /\ pc' = [pc EXCEPT ![t] = "wolfie"] /\ loginQ # <<>>
        /\ loginQ' = Tail(loginQ) /\ UNCHANGED <<sock, listed, user>>
    BY <1>3 DEF TakeConnection, Goto, listVars
  <2>2. /\ Len(loginQ) \in Nat \ {0} /\ Head(loginQ) = loginQ[1]
        /\ Len(loginQ') = Len(loginQ) - 1
        /\ \A i \in 1..Len(loginQ') : loginQ'[i] = loginQ[i + 1]
    BY <1>0, <2>1, TailPositions
  <2>3. \A i \in 1..Len(loginQ') : i + 1 \in 1..Len(loginQ) /\ i + 1 # 1
    BY <2>2
  <2>4. 1 \in 1..Len(loginQ)
    BY <2>2
  <2>5. ThreadsApart'
    BY <1>0, <2>1, <2>2, <2>4
  <2>6. QueueApart'
    <3>1. ASSUME NEW i \in 1..Len(loginQ'), NEW j \in 1..Len(loginQ'),
                 loginQ'[j] = loginQ'[i]
          PROVE  i = j
      <4>1. loginQ[i + 1] = loginQ[j + 1]
        BY <2>2, <3>1
      <4>2. i + 1 \in 1..Len(loginQ) /\ j + 1 \in 1..Len(loginQ)
        BY <2>3
      <4>3. \A k, l \in 1..Len(loginQ) : loginQ[k] = loginQ[l] => k = l
        BY <1>0
      <4>4. i + 1 = j + 1
        BY <4>1, <4>2, <4>3
      <4>5. QED
        BY <4>4, <2>2
    <3>2. QED
      BY <1>0, <2>1, <2>2, <2>3, <2>4, <3>1
  <2>7. QED
    BY <2>5, <2>6
<1>4. ASSUME NEW t \in Thread, LoginFd(t) PROVE ThreadsApart' /\ QueueApart'
  <2>1. /\ pc[t] = "loginFd" /\ user' = [user EXCEPT ![found[t]].fd = fdOf[t]]
        /\ pc' = [pc EXCEPT ![t] = "motd"] /\ UNCHANGED <<fdOf, sock, listed, loginQ>>
    BY <1>4 DEF LoginFd, Goto
  <2>2. \A r \in listed : user'[r].fd = user[r].fd \/ user'[r].fd = fdOf[t]
    BY <1>0, <2>1 DEF Record
  <2>3. QED
    BY <1>0, <2>1, <2>2
<1>5. ASSUME NEW t \in Thread, NEW p \in Valid, NEW r \in Rec, NewPass(t, p, r)
      PROVE  ThreadsApart' /\ QueueApart'
  <2>1. /\ pc[t] = "newpass" /\ pc' = [pc EXCEPT ![t] = "savedb"]
        /\ UNCHANGED <<fdOf, sock, loginQ>>
    BY <1>5 DEF NewPass, Goto
  <2>2. \A s \in listed' : \/ user'[s].fd = fdOf[t]
                           \/ s \in listed /\ user'[s] = user[s]
    BY <1>0, <1>5 DEF NewPass
  <2>3. QED
    BY <1>0, <2>1, <2>2
<1>6. ASSUME NEW t \in Thread, NEW p \in Password, Pass(t, p)
      PROVE  ThreadsApart' /\ QueueApart'
  <2>1. /\ pc[t] = "pass" /\ pc' = [pc EXCEPT ![t] = "loginFd"]
        /\ UNCHANGED <<fdOf, sock, loginQ>>
    BY <1>6 DEF Pass, Goto
  <2>2. listed' \subseteq listed /\ \A s \in listed : user'[s].fd = user[s].fd
    BY <1>0, <1>6 DEF Pass, RemainWithoutFD, Record
  <2>3. QED
    BY <1>0, <2>1, <2>2
<1>7. ASSUME NEW t \in Thread, NEW f \in Fd, Accept(f, t)
      PROVE  ThreadsApart' /\ QueueApart'
  <2>1. /\ sock[f] = "free" /\ pc[t] = "idle" /\ sock' = [sock EXCEPT ![f] = "live"]
        /\ fdOf' = [fdOf EXCEPT ![t] = f] /\ pc' = [pc EXCEPT ![t] = "wolfie"]
        /\ UNCHANGED <<listed, user, loginQ>>
    BY <1>7 DEF Accept, Goto, listVars
  <2>2. /\ \A u \in Thread : Active(u) => fdOf[u] # f
        /\ \A i \in 1..Len(loginQ) : loginQ[i] # f
        /\ \A r \in listed : user[r].fd # f
    BY <1>0, <2>1, ServerAssumption DEF ThreadsInv, ThreadInv, RecordsInv, RecordInv
  <2>3. QED
    BY <1>0, <2>1, <2>2
<1>8. CASE \E f \in Fd : AcceptPooled(f) \/ Vanish(f)
  <2>1. PICK f \in Fd, s \in {"live", "gone"} :
          /\ sock' = [sock EXCEPT ![f] = s]
          /\ UNCHANGED <<listed, user, pc, fdOf, loginQ>>
    BY <1>8 DEF AcceptPooled, Vanish, listVars, threadVars
  <2>2. QED
    BY <1>0, <2>1
<1>9. CASE Enqueue
  <2>1. /\ Unclaimed(currfd) /\ loginQ' = Append(loginQ, currfd)
        /\ UNCHANGED <<sock, listed, user, pc, fdOf>>
    BY <1>0, <1>9 DEF Enqueue, MainAt, MainInv, listVars, threadVars
  <2>2. /\ Len(loginQ') = Len(loginQ) + 1 /\ Len(loginQ) \in Nat
        /\ \A i \in 1..Len(loginQ) : loginQ'[i] = loginQ[i]
        /\ loginQ'[Len(loginQ) + 1] = currfd
    BY <1>0, <2>1, AppendPositions DEF Unclaimed
  <2>3. \A i \in 1..Len(loginQ') : i \in 1..Len(loginQ) \/ i = Len(loginQ) + 1
    BY <2>2
  <2>4. ThreadsApart'
    BY <1>0, <2>1
  <2>5. QueueApart'
    BY <1>0, <2>1, <2>2, <2>3 DEF Unclaimed
  <2>6. QED
    BY <2>4, <2>5
<1>10. CASE Bye \/ ClientCrash
  <2>1. PICK r : /\ user' = [user EXCEPT ![r].connected = FALSE, ![r].fd = NoFd]
                 /\ UNCHANGED <<listed, sock, pc, fdOf, loginQ>>
    BY <1>10 DEF Bye, ClientCrash, DisconnectUser, threadVars
  <2>2. \A s \in listed : user'[s].fd = user[s].fd \/ user'[s].fd = NoFd
    BY <1>0, <2>1 DEF Record
  <2>3. QED
    BY <1>0, <2>1, <2>2, ServerAssumption DEF ThreadsInv, ThreadInv
<1>11. CASE CloseBye
  <2>1. /\ Unclaimed(currfd) /\ sock' = [sock EXCEPT ![currfd] = "free"]
        /\ UNCHANGED <<listed, user, pc, fdOf, loginQ>>
    BY <1>0, <1>11 DEF CloseBye, MainAt, MainInv, listVars, threadVars
  <2>2. QED
    BY <1>0, <2>1 DEF Unclaimed
<1>12. CASE Halt
  <2>1. Len(<<>>) = 0
    OBVIOUS
  <2>2. QED
    BY <1>12, <2>1, HaltFrame
<1>13. CASE Start
  <2>1. /\ \A t \in Thread : pc'[t] = "idle"
        /\ loginQ' = <<>> /\ Len(<<>>) = 0
    BY <1>13 DEF Start, threadVars, IInv, ServerInv, DownInv
  <2>2. QED
    BY <2>1
<1>14. CASE UNCHANGED vars
  BY <1>0, <1>14 DEF vars, listVars, threadVars
<1>15. QED
  BY StepCases, <1>1, <1>2, <1>3, <1>4, <1>5, <1>6, <1>7, <1>8, <1>9, <1>10, <1>11,
     <1>12, <1>13, <1>14

-----------------------------------------------------------------------------
(* The main thread.  The record it handles keeps its socket until BYE, which *)
(* leaves the socket to the main thread alone.                               *)
LEMMA MainStep == ASSUME IInv, TypeOK', [Next]_vars PROVE MainInv'
<1> USE DEF MainInv, Unclaimed, HandlingPC
<1>0. /\ TypeOK /\ RecordsInv /\ ThreadsInv /\ ThreadsApart /\ QueueApart /\ MainInv
      /\ MutexInv
      /\ user \in [Rec -> Record] /\ listed \subseteq Rec
      /\ pc \in [Thread -> ThreadPC] /\ found \in [Thread -> Rec \cup {NoRec}]
      /\ fdOf \in [Thread -> Fd \cup {NoFd}] /\ loginQ \in Seq(Fd)
      /\ sock \in [Fd -> {"free", "live", "gone"}]
  BY DEF IInv, ServerInv, TypeOK
<1>1. CASE MainMove
  <2>1. \A f : Unclaimed(f)' <=> Unclaimed(f)
    BY <1>1, MainMoveFrame DEF Active
  <2>2. UNCHANGED <<listed, user>>
    BY <1>1, MainMoveFrame
  <2>3. CASE \E f \in Fd : Handle(f)
    <3>1. PICK f \in Fd : Handle(f)
      BY <2>3
    <3>2. CASE GetUserByFD(f) = NoRec
      BY <3>1, <3>2 DEF Handle, MainAt
    <3>3. CASE GetUserByFD(f) # NoRec
      <4>1. GetUserByFD(f) \in listed /\ user[GetUserByFD(f)].fd = f
        BY <1>0, <3>3, GetUserByFDFinds
      <4>2. mpc' = "read" /\ cur' = GetUserByFD(f) /\ currfd' = f
        BY <3>1, <3>3, <4>1 DEF Handle, MainGoto
      <4>3. QED
        BY <2>2, <4>1, <4>2
    <3>4. QED
      BY <3>2, <3>3
  <2>4. CASE \E n \in Name : LookupTo(n)
    <3>1. PICK n \in Name : LookupTo(n)
      BY <2>4
    <3>2. GetUser(n) = NoRec \/ GetUser(n) \in listed
      BY <1>0, GetUserFinds
    <3>3. QED
      BY <1>0, <2>2, <3>1, <3>2 DEF LookupTo, MainAt, MainGoto, DoneWithClient
  <2>5. CASE UoffBye
    <3>1. mpc = "uoffBye" /\ mpc' = "close" /\ UNCHANGED <<currfd, cur, to>>
      BY <2>5 DEF UoffBye, MainAt, MainGoto
    <3>2. Unclaimed(currfd)' <=> Unclaimed(currfd)
      BY <2>1, <3>1 DEF Active
    <3>3. QED
      BY <1>0, <2>2, <3>1, <3>2
  <2>6. CASE ReadTime \/ SendMsg \/ UoffCrash \/ Listu \/ Build \/ EndRound
    BY <2>6 DEF ReadTime, SendMsg, UoffCrash, Listu, Build, EndRound, DoneWithClient,
                MainGoto
  <2>7. CASE ReadListu \/ ReadMsg \/ ReadBye
    BY <1>0, <2>2, <2>7 DEF ReadListu, ReadMsg, ReadBye, MainAt, MainGoto
  <2>8. CASE CheckTo
    BY <1>0, <2>2, <2>8 DEF CheckTo, MainAt, MainGoto, DoneWithClient
  <2>9. QED
    BY <1>1, <2>3, <2>4, <2>5, <2>6, <2>7, <2>8 DEF MainMove
<1>2. ASSUME NEW t \in Thread, ThreadMove(t) PROVE MainInv'
  <2>1. ThreadFrame(t)
    BY <1>2, ThreadMoveFrame
  <2>2. QED
    BY <1>0, <2>1 DEF ThreadFrame, Active
<1>3. ASSUME NEW t \in Thread, TakeConnection(t) PROVE MainInv'
  <2>1. /\ fdOf' = [fdOf EXCEPT ![t] = Head(loginQ)]
        /\ pc' = [pc EXCEPT ![t] = "wolfie"] /\ loginQ # <<>>
        /\ loginQ' = Tail(loginQ)
        /\ UNCHANGED <<sock, listed, user, mpc, currfd, cur, to>>
    BY <1>3 DEF TakeConnection, Goto, listVars, mainVars
  <2>2. /\ Len(loginQ) \in Nat \ {0} /\ Head(loginQ) = loginQ[1]
        /\ Len(loginQ') = Len(loginQ) - 1
        /\ \A i \in 1..Len(loginQ') : loginQ'[i] = loginQ[i + 1]
    BY <1>0, <2>1, TailPositions
  <2>3. \A i \in 1..Len(loginQ') : i + 1 \in 1..Len(loginQ)
    BY <2>2
  <2>4. 1 \in 1..Len(loginQ)
    BY <2>2
  <2>5. Unclaimed(currfd) => Unclaimed(currfd)'
    BY <1>0, <2>1, <2>2, <2>3, <2>4 DEF Active
  <2>6. QED
    BY <1>0, <2>1, <2>5
<1>4. ASSUME NEW t \in Thread, LoginFd(t) PROVE MainInv'
  <2>1. /\ pc[t] = "loginFd" /\ user' = [user EXCEPT ![found[t]].fd = fdOf[t]]
        /\ pc' = [pc EXCEPT ![t] = "motd"]
        /\ UNCHANGED <<fdOf, sock, listed, loginQ, mpc, currfd, cur, to>>
    BY <1>4 DEF LoginFd, Goto, mainVars
  <2>2. \A r \in listed : user'[r].fd = user[r].fd \/ user'[r].fd = fdOf[t]
    BY <1>0, <2>1 DEF Record
  <2>3. user[found[t]].fd = NoFd
    BY <1>0, <2>1 DEF ThreadsInv, ThreadInv
  <2>4. Unclaimed(currfd) => Unclaimed(currfd)'
    BY <1>0, <2>1, <2>2 DEF Active
  <2>5. \A r \in listed : user[r].fd # NoFd => user'[r] = user[r]
    BY <1>0, <2>1, <2>3
  <2>6. QED
    BY <1>0, <2>1, <2>4, <2>5, ServerAssumption
<1>5. ASSUME NEW t \in Thread, NEW p \in Valid, NEW r \in Rec, NewPass(t, p, r)
      PROVE  MainInv'
  <2>1. /\ pc[t] = "newpass" /\ pc' = [pc EXCEPT ![t] = "savedb"]
        /\ UNCHANGED <<fdOf, sock, loginQ, mpc, currfd, cur, to>>
        /\ r \notin listed /\ listed' = listed \cup {r}
    BY <1>5 DEF NewPass, Goto, mainVars
  <2>2. user'[r].fd = fdOf[t] /\ \A s \in listed : user'[s] = user[s]
    BY <1>0, <1>5 DEF NewPass
  <2>3. Unclaimed(currfd) => Unclaimed(currfd)'
    BY <1>0, <2>1, <2>2 DEF Active
  <2>4. QED
    BY <1>0, <2>1, <2>2, <2>3
<1>6. ASSUME NEW t \in Thread, NEW p \in Password, Pass(t, p) PROVE MainInv'
  <2>1. /\ pc[t] = "pass" /\ pc' = [pc EXCEPT ![t] = "loginFd"]
        /\ UNCHANGED <<fdOf, sock, loginQ, mpc, currfd, cur, to>>
    BY <1>6 DEF Pass, Goto, mainVars
  <2>2. listed' = listed
    BY <1>0, <1>6, NothingRemoved DEF Pass, Active, HasUser
  <2>3. \A s \in listed : user'[s].fd = user[s].fd
    BY <1>0, <1>6 DEF Pass, Record
  <2>4. Unclaimed(currfd) => Unclaimed(currfd)'
    BY <1>0, <2>1, <2>2, <2>3 DEF Active
  <2>5. QED
    BY <1>0, <2>1, <2>2, <2>3, <2>4
<1>7. ASSUME NEW t \in Thread, NEW f \in Fd, Accept(f, t) PROVE MainInv'
  BY <1>7 DEF Accept, MainAt, mainVars
<1>8. ASSUME NEW f \in Fd, AcceptPooled(f) PROVE MainInv'
  <2>1. /\ sock[f] = "free" /\ sock' = [sock EXCEPT ![f] = "live"]
        /\ mpc' = "enqueue" /\ currfd' = f
        /\ UNCHANGED <<listed, user, pc, fdOf, loginQ>>
    BY <1>8 DEF AcceptPooled, MainGoto, listVars, threadVars
  <2>2. Unclaimed(f)'
    BY <1>0, <2>1, ServerAssumption
       DEF ThreadsInv, ThreadInv, RecordsInv, RecordInv, QueueApart, Active
  <2>3. QED
    BY <2>1, <2>2 DEF Active
<1>9. ASSUME NEW f \in Fd, Vanish(f) PROVE MainInv'
  BY <1>0, <1>9 DEF Vanish, listVars, threadVars, mainVars, Active
<1>10. CASE Enqueue \/ CloseBye
  BY <1>10 DEF Enqueue, CloseBye, DoneWithClient, MainGoto
<1>11. CASE Bye
  <2> DEFINE r == GetUserByFD(currfd)
  <2>1. /\ mpc = "bye" /\ mpc' = "uoffBye" /\ mutex = Nobody
        /\ user' = [user EXCEPT ![r].connected = FALSE, ![r].fd = NoFd]
        /\ UNCHANGED <<listed, sock, pc, fdOf, loginQ, currfd, cur, to>>
    BY <1>11 DEF Bye, DisconnectUser, MainAt, MainGoto, threadVars
  <2>2. cur \in listed /\ currfd \in Fd /\ user[cur].fd = currfd
    BY <1>0, <2>1
  <2>3. r = cur
    BY <1>0, <2>2, GetUserByFDFinds, ServerAssumption DEF RecordsInv, DistinctInv
  <2>4. \A s \in listed : user'[s].fd # currfd
    BY <1>0, <2>1, <2>2, <2>3, ServerAssumption DEF RecordsInv, DistinctInv, Record
  <2>5. \A t \in Thread : Active(t) => ~HasUser(t)
    BY <1>0, <2>1, InsideAlone DEF InsidePC, HasUser
  <2>6. Unclaimed(currfd)'
    BY <1>0, <2>1, <2>2, <2>4, <2>5, ServerAssumption
       DEF RecordsInv, RecordInv, ThreadsApart, QueueApart, Active
  <2>7. QED
    BY <2>1, <2>2, <2>6
<1>12. CASE ClientCrash
  BY <1>0, <1>12 DEF ClientCrash, MainAt, MainGoto
<1>13. CASE Halt
  BY <1>13, HaltFrame
<1>14. CASE Start
  BY <1>14 DEF Start, mainVars, IInv, ServerInv, DownInv
<1>15. CASE UNCHANGED vars
  BY <1>0, <1>15 DEF vars, listVars, threadVars, mainVars, Active
<1>16. QED
  BY StepCases, <1>1, <1>2, <1>3, <1>4, <1>5, <1>6, <1>7, <1>8, <1>9, <1>10, <1>11,
     <1>12, <1>13, <1>14, <1>15

-----------------------------------------------------------------------------
(* The table.  SaveDb inserts the only record that is not in it yet. *)
LEMMA DbSame ==
  ASSUME DbInv, UNCHANGED <<db, listed>>, up' => up,
         \A r \in listed : user'[r].name = user[r].name
                           /\ user'[r].password = user[r].password,
         \A t \in Thread : (pc'[t] = "savedb") = (pc[t] = "savedb"),
         \A t \in Thread : pc[t] = "savedb" => found'[t] = found[t]
  PROVE  DbInv'
<1>1. Visible' = Visible
  BY DEF Visible
<1>2. \A r \in Visible : Row(r)' = Row(r)
  BY DEF Visible, Row
<1>3. {Row(r) : r \in Visible}' = {Row(r) : r \in Visible}
  BY <1>1, <1>2
<1>4. QED
  BY <1>3 DEF DbInv

LEMMA OtherMoves ==
  ASSUME TypeOK, NEW t \in Thread, ThreadMove(t), ~SaveDb(t)
  PROVE  db' = db /\ pc[t] # "savedb" /\ pc'[t] # "savedb"
<1> USE DEF TypeOK, Goto, ThreadPC
<1>1. CASE ReadWolfie(t) \/ ReadIamOther(t) \/ NewPassRefused(t) \/ Unlock(t)
  BY <1>1 DEF ReadWolfie, ReadIamOther, NewPassRefused, Unlock
<1>2. CASE LockNew(t) \/ LockIam(t)
  BY <1>2 DEF LockNew, LockIam
<1>3. CASE SendMotd(t) \/ RefusedTail(t) \/ CrashOutside(t) \/ CrashInside(t)
  BY <1>3 DEF SendMotd, RefusedTail, CrashOutside, CrashInside, Leave, Exit
<1>4. CASE \E n \in Name, label \in {"lockNew", "lockIam"} : ReadIam(t, n, label)
  BY <1>4 DEF ReadIam
<1>5. CASE \E p \in Password : PassRefused(t, p)
  BY <1>5 DEF PassRefused
<1>6. QED
  BY <1>1, <1>2, <1>3, <1>4, <1>5 DEF ThreadMove

LEMMA SaveDbStep ==
  ASSUME IInv, NEW t \in Thread, SaveDb(t) PROVE DbInv'
<1> DEFINE me == found[t]
           new == [name |-> nm[t], password |-> user[me].password]
<1>1. /\ pc[t] = "savedb" /\ pc' = [pc EXCEPT ![t] = "motd"]
      /\ UNCHANGED <<up, listed, user, found>>
      /\ db' = IF HasAccounts /\ ~\E a \in db : a.name = nm[t] THEN db \cup {new} ELSE db
  BY DEF SaveDb, Goto, listVars
<1>2. /\ TypeOK /\ MutexInv /\ RecordsInv /\ DbInv /\ pc \in [Thread -> ThreadPC]
      /\ me \in listed /\ user[me].name = nm[t]
  BY <1>1 DEF IInv, ServerInv, TypeOK, ThreadsInv, ThreadInv
<1>3. \A u \in Thread : pc[u] = "savedb" => u = t
  BY <1>1, <1>2, InsideAlone DEF InsidePC
<1>4. Visible = listed \ {me}
  BY <1>1, <1>3 DEF Visible
<1>5. Visible' = listed
  BY <1>1, <1>2, <1>3 DEF Visible
<1>6. up
  BY <1>1 DEF IInv, ServerInv, DownInv
<1>7. CASE HasAccounts
  <2>1. db = {Row(r) : r \in listed \ {me}}
    BY <1>2, <1>4, <1>6, <1>7 DEF DbInv
  <2>2. ~\E a \in db : a.name = nm[t]
    BY <1>2, <2>1 DEF Row, RecordsInv, DistinctInv
  <2>3. db' = db \cup {new}
    BY <1>1, <1>7, <2>2
  <2>4. Row(me) = new
    BY <1>2 DEF Row
  <2>5. db' = {Row(r) : r \in listed}
    BY <1>2, <2>1, <2>3, <2>4
  <2>6. \A r : Row(r)' = Row(r)
    BY <1>1 DEF Row
  <2>7. db' = {Row(r) : r \in Visible}'
    BY <1>5, <2>5, <2>6
  <2>8. \A a, b \in db' : a.name = b.name => a = b
    BY <1>2, <2>2, <2>3 DEF DbInv
  <2>9. QED
    BY <1>7, <2>7, <2>8 DEF DbInv
<1>8. CASE ~HasAccounts
  BY <1>1, <1>2, <1>8 DEF DbInv
<1>9. QED
  BY <1>7, <1>8

LEMMA DbStep == ASSUME IInv, TypeOK', [Next]_vars PROVE DbInv'
<1>0. /\ TypeOK /\ RecordsInv /\ DbInv /\ MutexInv
      /\ user \in [Rec -> Record] /\ listed \subseteq Rec
      /\ pc \in [Thread -> ThreadPC] /\ found \in [Thread -> Rec \cup {NoRec}]
  BY DEF IInv, ServerInv, TypeOK
<1>1. CASE MainMove
  BY <1>0, <1>1, MainMoveFrame, DbSame
<1>2. ASSUME NEW t \in Thread, ThreadMove(t) PROVE DbInv'
  <2>1. CASE SaveDb(t)
    BY <2>1, SaveDbStep
  <2>2. CASE ~SaveDb(t)
    <3>1. ThreadFrame(t)
      BY <1>2, ThreadMoveFrame
    <3>2. db' = db /\ pc[t] # "savedb" /\ pc'[t] # "savedb"
      BY <1>2, <2>2, OtherMoves DEF IInv
    <3>3. QED
      BY <1>0, <3>1, <3>2, DbSame DEF ThreadFrame
  <2>3. QED
    BY <2>1, <2>2
<1>3. ASSUME NEW t \in Thread, TakeConnection(t) PROVE DbInv'
  BY <1>0, <1>3, DbSame DEF TakeConnection, Goto, listVars
<1>4. ASSUME NEW t \in Thread, LoginFd(t) PROVE DbInv'
  BY <1>0, <1>4, DbSame DEF LoginFd, Goto, Record
<1>5. ASSUME NEW t \in Thread, NEW p \in Valid, NEW r \in Rec, NewPass(t, p, r)
      PROVE  DbInv'
  <2>1. /\ pc[t] = "newpass" /\ pc' = [pc EXCEPT ![t] = "savedb"]
        /\ found' = [found EXCEPT ![t] = r] /\ UNCHANGED <<up, db>>
        /\ r \notin listed /\ listed' = listed \cup {r}
    BY <1>5 DEF NewPass, Goto
  <2>2. \A u \in Thread : pc[u] # "savedb"
    BY <1>0, <2>1, InsideAlone DEF InsidePC
  <2>3. Visible' = Visible
    BY <1>0, <2>1, <2>2 DEF Visible
  <2>4. \A s \in Visible : Row(s)' = Row(s)
    BY <1>0, <1>5 DEF NewPass, Visible, Row
  <2>5. {Row(s) : s \in Visible}' = {Row(s) : s \in Visible}
    BY <2>3, <2>4
  <2>6. QED
    BY <1>0, <2>1, <2>5 DEF DbInv
<1>6. ASSUME NEW t \in Thread, NEW p \in Password, Pass(t, p) PROVE DbInv'
  <2>1. listed' = listed
    BY <1>6, NothingRemoved DEF Pass, Active, HasUser, IInv, ServerInv
  <2>2. QED
    BY <1>0, <1>6, <2>1, DbSame DEF Pass, Goto, Record
<1>7. ASSUME NEW t \in Thread, NEW f \in Fd, Accept(f, t) PROVE DbInv'
  BY <1>0, <1>7, DbSame DEF Accept, Goto, listVars
<1>8. CASE (\E f \in Fd : AcceptPooled(f) \/ Vanish(f)) \/ Enqueue \/ CloseBye
           \/ UNCHANGED vars
  <2>1. UNCHANGED <<up, db, listed, user, pc, found>>
    BY <1>8 DEF AcceptPooled, Vanish, Enqueue, CloseBye, vars, diskVars, listVars,
                threadVars
  <2>2. QED
    BY <1>0, <2>1, DbSame
<1>9. CASE Bye \/ ClientCrash
  <2>1. PICK r : /\ user' = [user EXCEPT ![r].connected = FALSE, ![r].fd = NoFd]
                 /\ UNCHANGED <<up, db, listed, pc, found>>
    BY <1>9 DEF Bye, ClientCrash, DisconnectUser, threadVars
  <2>2. \A s \in Rec : user'[s].name = user[s].name /\ user'[s].password = user[s].password
    BY <1>0, <2>1 DEF Record
  <2>3. QED
    BY <1>0, <2>1, <2>2, DbSame
<1>10. CASE Halt
  BY <1>0, <1>10, HaltFrame DEF DbInv
<1>11. CASE Start
  <2>1. PICK load \in [db -> Rec] :
          /\ \A a, b \in db : load[a] = load[b] => a = b
          /\ listed' = {load[a] : a \in db}
          /\ user' = [r \in Rec |->
               IF \E a \in db : load[a] = r
                 THEN LET a == CHOOSE b \in db : load[b] = r
                      IN [Blank EXCEPT !.name = a.name, !.password = a.password]
                 ELSE Blank]
    BY <1>11 DEF Start
  <2>2. db' = db /\ \A t \in Thread : pc'[t] # "savedb"
    BY <1>11 DEF Start, threadVars, IInv, ServerInv, DownInv
  <2>3. ASSUME NEW a \in db PROVE Row(load[a])' = a
    <3>1. (CHOOSE b \in db : load[b] = load[a]) = a
      BY <2>1
    <3>2. user'[load[a]] = [Blank EXCEPT !.name = a.name, !.password = a.password]
      BY <2>1, <3>1
    <3>3. user'[load[a]].name = a.name /\ user'[load[a]].password = a.password
      BY <3>2 DEF Blank
    <3>4. a \in [name : Name, password : Valid]
      BY <1>0 DEF TypeOK
    <3>5. QED
      BY <3>3, <3>4 DEF Row
  <2>4. Visible' = listed'
    BY <2>2 DEF Visible
  <2>5. {Row(r) : r \in Visible}' = db
    <3>1. ASSUME NEW r \in Visible' PROVE Row(r)' \in db
      <4>1. PICK a \in db : r = load[a]
        BY <2>1, <2>4
      <4>2. QED
        BY <4>1, <2>3
    <3>2. ASSUME NEW a \in db PROVE \E r \in Visible' : Row(r)' = a
      <4>1. load[a] \in Visible'
        BY <2>1, <2>4
      <4>2. QED
        BY <4>1, <2>3
    <3>3. QED
      BY <3>1, <3>2
  <2>6. QED
    BY <1>0, <2>2, <2>5 DEF DbInv
<1>12. QED
  BY StepCases, <1>1, <1>2, <1>3, <1>4, <1>5, <1>6, <1>7, <1>8, <1>9, <1>10, <1>11

-----------------------------------------------------------------------------
LEMMA DownStep == ASSUME IInv, TypeOK', [Next]_vars PROVE DownInv'
<1> USE DEF DownInv
<1>0. DownInv /\ TypeOK
  BY DEF IInv, ServerInv
<1>1. CASE Halt
  BY <1>1, HaltFrame
<1>2. CASE up' = up /\ (up \/ UNCHANGED <<sock, listed, loginQ, pc, mpc>>)
  BY <1>0, <1>2
<1>3. CASE Start
  BY <1>3 DEF Start
<1>4. CASE MainMove
  <2>1. up /\ up' = up
    BY <1>4 DEF MainMove, Build, EndRound, ReadTime, ReadListu, Listu, ReadMsg, CheckTo,
                SendMsg, ReadBye, UoffBye, UoffCrash, Handle, LookupTo, MainAt
  <2>2. QED
    BY <2>1, <1>2
<1>5. ASSUME NEW t \in Thread, ThreadMove(t) PROVE DownInv'
  <2>1. ThreadFrame(t)
    BY <1>5, ThreadMoveFrame
  <2>2. up' = up /\ pc[t] # "idle"
    BY <2>1 DEF ThreadFrame, Active
  <2>3. QED
    BY <1>0, <2>2
<1>6. ASSUME NEW t \in Thread, TakeConnection(t) \/ LoginFd(t) PROVE DownInv'
  BY <1>0, <1>6 DEF TakeConnection, LoginFd
<1>7. ASSUME NEW t \in Thread, NEW p \in Valid, NEW r \in Rec, NewPass(t, p, r)
      PROVE  DownInv'
  BY <1>0, <1>7 DEF NewPass
<1>8. ASSUME NEW t \in Thread, NEW p \in Password, Pass(t, p) PROVE DownInv'
  BY <1>0, <1>8 DEF Pass
<1>9. ASSUME NEW f \in Fd, Vanish(f) PROVE DownInv'
  BY <1>0, <1>9 DEF Vanish
<1>10. CASE (\E t \in Thread, f \in Fd : Accept(f, t)) \/ (\E f \in Fd : AcceptPooled(f))
            \/ Enqueue \/ Bye \/ ClientCrash \/ CloseBye
  BY <1>0, <1>10 DEF Accept, AcceptPooled, Enqueue, Bye, ClientCrash, CloseBye, MainAt
<1>11. CASE UNCHANGED vars
  BY <1>0, <1>11 DEF vars, listVars, threadVars, mainVars
<1>12. QED
  BY StepCases, <1>1, <1>3, <1>4, <1>5, <1>6, <1>7, <1>8, <1>9, <1>10, <1>11

-----------------------------------------------------------------------------
LEMMA Initially == ASSUME Init PROVE IInv
<1> USE ServerAssumption
<1>1. TypeOK
  BY BlankRecord DEF Init, TypeOK, ThreadPC, MainPC
<1>2. MutexInv /\ RecordsInv /\ ThreadsInv /\ ThreadsApart
  BY DEF Init, MutexInv, InsidePC, RecordsInv, DistinctInv, ThreadsInv, ThreadInv, Active,
         HasUser, ThreadsApart
<1>3. QueueApart
  <2>1. loginQ = <<>> /\ Len(<<>>) = 0
    BY DEF Init
  <2>2. QED
    BY <2>1 DEF QueueApart
<1>4. MainInv /\ DownInv
  BY DEF Init, MainInv, HandlingPC, DownInv
<1>5. DbInv
  BY DEF Init, DbInv, Visible
<1>6. QED
  BY <1>1, <1>2, <1>3, <1>4, <1>5 DEF IInv, ServerInv

(* The invariant, from which the rest follows. *)
THEOREM Invariance == Spec => []IInv
<1>1. Init => IInv
  BY Initially
<1>2. IInv /\ [Next]_vars => IInv'
  <2> SUFFICES ASSUME IInv, [Next]_vars PROVE IInv'
    OBVIOUS
  <2>1. TypeOK'
    BY TypeStep
  <2>2. MutexInv' /\ RecordsInv' /\ ThreadsInv' /\ ThreadsApart' /\ QueueApart'
    BY <2>1, MutexStep, RecordsStep, ThreadsStep, ApartStep
  <2>3. MainInv' /\ DbInv' /\ DownInv'
    BY <2>1, MainStep, DbStep, DownStep
  <2>4. QED
    BY <2>1, <2>2, <2>3 DEF IInv, ServerInv
<1>3. QED
  BY <1>1, <1>2, PTL DEF Spec

(* Every variable keeps its type; FD_SET is given real descriptors only. *)
THEOREM TypeCorrect == Spec => []TypeOK
<1>1. IInv => TypeOK
  BY DEF IInv
<1>2. QED
  BY <1>1, Invariance, PTL

(* No two listed users have one name. *)
THEOREM NamesUnique == Spec => []UniqueNames
<1>1. IInv => UniqueNames
  BY DEF IInv, ServerInv, RecordsInv, DistinctInv, UniqueNames
<1>2. QED
  BY <1>1, Invariance, PTL

(* A user's descriptor is open and his alone, and he is connected. *)
THEOREM SessionsAreSound == Spec => []SessionsSound
<1>1. IInv => SessionsSound
  BY DEF IInv, ServerInv, RecordsInv, DistinctInv, RecordInv, SessionsSound
<1>2. QED
  BY <1>1, Invariance, PTL

(* A socket in a login dialogue belongs to one login thread and nobody else. *)
THEOREM OneReaderAtATime == Spec => []OneReader
<1>1. ASSUME IInv PROVE OneReader
  <2> SUFFICES ASSUME NEW t \in Thread, InDialogue(t)
               PROVE  /\ fdOf[t] # NoFd /\ sock[fdOf[t]] # "free"
                      /\ \A u \in Thread : fdOf[u] = fdOf[t] => u = t
                      /\ \A i \in DOMAIN loginQ : loginQ[i] # fdOf[t]
                      /\ \A r \in listed : user[r].fd # fdOf[t]
    BY DEF OneReader
  <2>1. Active(t) /\ ~HasUser(t)
    BY DEF InDialogue, Active, HasUser
  <2>2. DOMAIN loginQ = 1..Len(loginQ)
    BY <1>1 DEF IInv, TypeOK
  <2>3. fdOf[t] # NoFd /\ sock[fdOf[t]] # "free"
    BY <1>1, <2>1, ServerAssumption DEF IInv, ServerInv, ThreadsInv, ThreadInv
  <2>4. \A u \in Thread : fdOf[u] = fdOf[t] => Active(u)
    BY <1>1, <2>3 DEF IInv, ServerInv, ThreadsInv, ThreadInv
  <2>5. QED
    BY <1>1, <2>1, <2>2, <2>3, <2>4 DEF IInv, ServerInv, ThreadsApart, QueueApart
<1>2. QED
  BY <1>1, Invariance, PTL

(* The records that threads keep pointers to stay in the list. *)
THEOREM PointersStayListed == Spec => []PointersListed
<1>1. IInv => PointersListed
  BY DEF IInv, ServerInv, MainInv, HandlingPC, ThreadsInv, ThreadInv, PointersListed
<1>2. QED
  BY <1>1, Invariance, PTL

(* The list and the table hold the same accounts. *)
THEOREM DbMatchesList == Spec => []AccountsMatchDb
<1>1. ASSUME IInv PROVE AccountsMatchDb
  <2>1. (\A t \in Thread : pc[t] # "savedb") => Visible = listed
    BY DEF Visible
  <2>2. QED
    BY <1>1, <2>1 DEF IInv, ServerInv, DbInv, AccountsMatchDb, Row
<1>2. QED
  BY <1>1, Invariance, PTL

(* No account leaves the list while the server runs. *)
THEOREM NoAccountLeaves == Spec => AccountsStay
<1>1. ASSUME IInv, [Next]_vars PROVE up /\ up' => listed \subseteq listed'
  <2>1. CASE MainMove
    BY <2>1, MainMoveFrame
  <2>2. ASSUME NEW t \in Thread, ThreadMove(t) \/ TakeConnection(t) \/ LoginFd(t)
        PROVE  listed' = listed
    <3>1. ThreadMove(t) => listed' = listed
      BY <1>1, ThreadMoveFrame DEF ThreadFrame
    <3>2. QED
      BY <2>2, <3>1 DEF TakeConnection, LoginFd, listVars
  <2>3. ASSUME NEW t \in Thread, NEW p \in Valid, NEW r \in Rec, NewPass(t, p, r)
        PROVE  listed \subseteq listed'
    BY <2>3 DEF NewPass
  <2>4. ASSUME NEW t \in Thread, NEW p \in Password, Pass(t, p) PROVE listed' = listed
    BY <1>1, <2>4, NothingRemoved DEF Pass, Active, HasUser, IInv, ServerInv
  <2>5. CASE \/ \E t \in Thread, f \in Fd : Accept(f, t)
             \/ \E f \in Fd : AcceptPooled(f) \/ Vanish(f)
             \/ Enqueue \/ Bye \/ ClientCrash \/ CloseBye \/ UNCHANGED vars
    BY <2>5 DEF Accept, AcceptPooled, Vanish, Enqueue, Bye, ClientCrash, CloseBye, vars,
                listVars
  <2>6. CASE Halt
    BY <2>6, HaltFrame
  <2>7. CASE Start
    BY <2>7 DEF Start
  <2>8. QED
    BY <1>1, StepCases, <2>1, <2>2, <2>3, <2>4, <2>5, <2>6, <2>7
<1>2. ASSUME IInv, [Next]_vars PROVE [up /\ up' => listed \subseteq listed']_vars
  BY <1>1, <1>2
<1>3. QED
  BY <1>2, Invariance, PTL DEF Spec, AccountsStay

(* A session ends before another of the same account begins. *)
THEOREM SessionsStay == Spec => NoTakeover
<1> DEFINE Same == \A r \in listed \cap listed' :
                     user[r].fd # NoFd /\ user'[r].fd # NoFd => user'[r].fd = user[r].fd
<1>1. ASSUME IInv, [Next]_vars PROVE Same
  <2>0. user \in [Rec -> Record] /\ listed \subseteq Rec
    BY <1>1 DEF IInv, TypeOK
  <2>1. CASE MainMove
    BY <2>1, MainMoveFrame
  <2>2. ASSUME NEW t \in Thread, ThreadMove(t) \/ TakeConnection(t) PROVE Same
    <3>1. ThreadMove(t) => user' = user
      BY <1>1, ThreadMoveFrame DEF ThreadFrame
    <3>2. QED
      BY <2>2, <3>1 DEF TakeConnection, listVars
  <2>3. ASSUME NEW t \in Thread, LoginFd(t) PROVE Same
    <3>1. user[found[t]].fd = NoFd
      BY <1>1, <2>3 DEF LoginFd, IInv, ServerInv, ThreadsInv, ThreadInv
    <3>2. QED
      BY <2>0, <2>3, <3>1 DEF LoginFd
  <2>4. ASSUME NEW t \in Thread, NEW p \in Valid, NEW r \in Rec, NewPass(t, p, r)
        PROVE  Same
    BY <2>0, <2>4 DEF NewPass
  <2>5. ASSUME NEW t \in Thread, NEW p \in Password, Pass(t, p) PROVE Same
    BY <2>0, <2>5 DEF Pass, Record
  <2>6. CASE \/ \E t \in Thread, f \in Fd : Accept(f, t)
             \/ \E f \in Fd : AcceptPooled(f) \/ Vanish(f)
             \/ Enqueue \/ CloseBye \/ UNCHANGED vars
    BY <2>6 DEF Accept, AcceptPooled, Vanish, Enqueue, CloseBye, vars, listVars
  <2>7. CASE Bye \/ ClientCrash
    <3>1. PICK r : user' = [user EXCEPT ![r].connected = FALSE, ![r].fd = NoFd]
      BY <2>7 DEF Bye, ClientCrash, DisconnectUser
    <3>2. QED
      BY <2>0, <3>1 DEF Record
  <2>8. CASE Halt
    BY <2>8, HaltFrame
  <2>9. CASE Start
    BY <1>1, <2>9 DEF Start, IInv, ServerInv, DownInv
  <2>10. QED
    BY <1>1, StepCases, <2>1, <2>2, <2>3, <2>4, <2>5, <2>6, <2>7, <2>8, <2>9
<1>2. ASSUME IInv, [Next]_vars PROVE [Same]_vars
  BY <1>1, <1>2
<1>3. QED
  BY <1>2, Invariance, PTL DEF Spec, NoTakeover

-----------------------------------------------------------------------------
(* The refinement.  By the unique names, a name's session is the descriptor  *)
(* of the record that has the name.                                          *)
SessionByName ==
  DistinctInv =>
    /\ \A r \in Visible : user[r].name \in Name => Session[user[r].name] = user[r].fd
    /\ \A n \in Name : (\A r \in Visible : user[r].name # n) => Session[n] = NoFd
    /\ Session = [n \in Name |-> Session[n]]

LEMMA SessionIs == SessionByName
<1> SUFFICES ASSUME DistinctInv
             PROVE  /\ \A r \in Visible : user[r].name \in Name =>
                         Session[user[r].name] = user[r].fd
                    /\ \A n \in Name : (\A r \in Visible : user[r].name # n) =>
                         Session[n] = NoFd
                    /\ Session = [n \in Name |-> Session[n]]
  BY DEF SessionByName
<1>1. ASSUME NEW r \in Visible, user[r].name \in Name
      PROVE  Session[user[r].name] = user[r].fd
  <2>1. r = CHOOSE s \in Visible : user[s].name = user[r].name
    BY <1>1 DEF DistinctInv, Visible
  <2>2. QED
    BY <1>1, <2>1 DEF Session
<1>2. QED
  BY <1>1 DEF Session

LEMMA SessionIsNext == SessionByName'
BY SessionIs, PTL

(* A step that keeps the visible records, their rows and their descriptors *)
(* keeps the sessions and the accounts.                                    *)
LEMMA SameService ==
  ASSUME DistinctInv, DistinctInv', up, up', Visible' = Visible,
         \A r \in Visible : user'[r].name = user[r].name
                            /\ user'[r].password = user[r].password
                            /\ user'[r].fd = user[r].fd
  PROVE  UNCHANGED <<Accounts, Session>>
<1>1. \A r \in Visible : Row(r)' = Row(r)
  BY DEF Row
<1>2. Accounts' = Accounts
  BY <1>1 DEF Accounts
<1>3. ASSUME NEW n \in Name PROVE Session'[n] = Session[n]
  <2>1. CASE \E r \in Visible : user[r].name = n
    <3>1. PICK r \in Visible : user[r].name = n
      BY <2>1
    <3>2. Session[n] = user[r].fd
      BY <3>1, SessionIs DEF SessionByName
    <3>3. Session'[n] = user'[r].fd
      BY <3>1, SessionIsNext DEF SessionByName
    <3>4. QED
      BY <3>2, <3>3
  <2>2. CASE ~\E r \in Visible : user[r].name = n
    <3>1. Session[n] = NoFd
      BY <2>2, SessionIs DEF SessionByName
    <3>2. Session'[n] = NoFd
      BY <2>2, SessionIsNext DEF SessionByName
    <3>3. QED
      BY <3>1, <3>2
  <2>3. QED
    BY <2>1, <2>2
<1>4. Session' = Session
  BY <1>3 DEF Session
<1>5. QED
  BY <1>2, <1>4

(* A step that changes the descriptor of one record, or makes it visible, *)
(* changes one session.                                                   *)
LEMMA OneSession ==
  ASSUME DistinctInv, DistinctInv', NEW r \in Visible', user'[r].name \in Name,
         Visible' \ {r} = Visible \ {r},
         \A s \in Visible \ {r} : user'[s].name = user[s].name
                                  /\ user'[s].fd = user[s].fd,
         r \in Visible => user[r].name = user'[r].name
  PROVE  Session' = [Session EXCEPT ![user'[r].name] = user'[r].fd]
<1> DEFINE n == user'[r].name
<1>1. Session'[n] = user'[r].fd
  BY SessionIsNext DEF SessionByName
<1>2. ASSUME NEW m \in Name, m # n PROVE Session'[m] = Session[m]
  <2>1. CASE \E s \in Visible' : user'[s].name = m
    <3>1. PICK s \in Visible' : user'[s].name = m
      BY <2>1
    <3>2. s \in Visible \ {r}
      BY <1>2, <3>1
    <3>3. Session'[m] = user'[s].fd
      BY <3>1, SessionIsNext DEF SessionByName
    <3>4. Session[m] = user[s].fd
      BY <3>1, <3>2, SessionIs DEF SessionByName
    <3>5. QED
      BY <3>2, <3>3, <3>4
  <2>2. CASE ~\E s \in Visible' : user'[s].name = m
    <3>1. \A s \in Visible : user[s].name # m
      BY <1>2, <2>2
    <3>2. Session[m] = NoFd
      BY <3>1, SessionIs DEF SessionByName
    <3>3. Session'[m] = NoFd
      BY <2>2, SessionIsNext DEF SessionByName
    <3>4. QED
      BY <3>2, <3>3
  <2>3. QED
    BY <2>1, <2>2
<1>3. Session = [m \in Name |-> Session[m]] /\ Session' = [m \in Name |-> Session'[m]]
  BY SessionIs, SessionIsNext DEF SessionByName
<1>4. QED
  BY <1>1, <1>2, <1>3

LEMMA FreshSocket ==
  ASSUME DistinctInv, NEW f \in Fd, \A s \in Visible : user[s].fd # f
  PROVE  f \notin Chat!InUse
<1>1. ASSUME NEW n \in Name PROVE Session[n] # f
  <2>1. CASE \E s \in Visible : user[s].name = n
    BY <2>1, SessionIs DEF SessionByName
  <2>2. CASE ~\E s \in Visible : user[s].name = n
    BY <2>2, SessionIs, ServerAssumption DEF SessionByName
  <2>3. QED
    BY <2>1, <2>2
<1>2. QED
  BY <1>1 DEF Chat!InUse

LEMMA SaveDbRegisters ==
  ASSUME IInv, IInv', NEW t \in Thread, SaveDb(t)
  PROVE  \E n \in Name, p \in Valid, f \in Fd : Chat!Register(n, p, f)
<1> DEFINE me == found[t]
<1>1. /\ pc[t] = "savedb" /\ pc' = [pc EXCEPT ![t] = "motd"]
      /\ UNCHANGED <<up, listed, user, found>>
  BY DEF SaveDb, Goto, listVars
<1>2. /\ MutexInv /\ DistinctInv /\ DistinctInv' /\ RecordInv(me)
      /\ pc \in [Thread -> ThreadPC] /\ me \in listed
      /\ user[me].fd \in Fd
  BY <1>1 DEF IInv, ServerInv, TypeOK, ThreadsInv, ThreadInv, Active, HasUser, RecordsInv
<1>3. \A u \in Thread : pc[u] = "savedb" => u = t
  BY <1>1, <1>2, InsideAlone DEF InsidePC
<1>4. Visible = listed \ {me} /\ Visible' = listed
  BY <1>1, <1>2, <1>3 DEF Visible
<1>5. up /\ up'
  BY <1>1 DEF IInv, ServerInv, DownInv
<1>6. user[me].name \in Name /\ user[me].password \in Valid
  BY <1>2 DEF RecordInv
<1>7. Session' = [Session EXCEPT ![user[me].name] = user[me].fd]
  <2>1. /\ user'[me].name \in Name /\ me \in Visible' /\ me \notin Visible
        /\ Visible' \ {me} = Visible \ {me}
        /\ \A s \in Visible \ {me} : /\ user'[s].name = user[s].name
                                     /\ user'[s].fd = user[s].fd
    BY <1>1, <1>2, <1>4, <1>6
  <2>2. Session' = [Session EXCEPT ![user'[me].name] = user'[me].fd]
    BY <1>2, <2>1, OneSession
  <2>3. QED
    BY <1>1, <2>2
<1>8. \A r : Row(r)' = Row(r)
  BY <1>1 DEF Row
<1>9. Accounts' = Accounts \cup {Row(me)}
  BY <1>2, <1>4, <1>5, <1>8 DEF Accounts
<1>10. \A a \in Accounts : a.name # user[me].name
  BY <1>2, <1>4, <1>5 DEF Accounts, Row, DistinctInv
<1>11. \A s \in Visible : user[s].fd # user[me].fd
  BY <1>2, <1>4, ServerAssumption DEF DistinctInv
<1>12. user[me].fd \notin Chat!InUse
  BY <1>2, <1>11, FreshSocket
<1>13. Chat!Register(user[me].name, user[me].password, user[me].fd)
  BY <1>7, <1>9, <1>10, <1>12 DEF Chat!Register, Chat!HasAccount, Row
<1>14. QED
  BY <1>2, <1>6, <1>13

LEMMA LoginFdLogsIn ==
  ASSUME IInv, IInv', NEW t \in Thread, LoginFd(t)
  PROVE  \E n \in Name, f \in Fd : Chat!Login(n, f)
<1> DEFINE me == found[t]
<1>1. /\ pc[t] = "loginFd" /\ pc' = [pc EXCEPT ![t] = "motd"]
      /\ user' = [user EXCEPT ![me].fd = fdOf[t]]
      /\ UNCHANGED <<up, listed, found>>
  BY DEF LoginFd, Goto
<1>2. /\ MutexInv /\ DistinctInv /\ DistinctInv' /\ RecordInv(me) /\ ThreadsApart
      /\ pc \in [Thread -> ThreadPC] /\ me \in listed /\ fdOf[t] \in Fd
      /\ user[me].fd = NoFd /\ user \in [Rec -> Record] /\ listed \subseteq Rec
  BY <1>1 DEF IInv, ServerInv, TypeOK, ThreadsInv, ThreadInv, Active, RecordsInv
<1>3. \A u \in Thread : pc[u] # "savedb"
  BY <1>1, <1>2, InsideAlone DEF InsidePC
<1>4. Visible = listed /\ Visible' = listed
  BY <1>1, <1>2, <1>3 DEF Visible
<1>5. up /\ up'
  BY <1>1 DEF IInv, ServerInv, DownInv
<1>6. user[me].name \in Name
  BY <1>2 DEF RecordInv
<1>7. /\ user'[me].name = user[me].name /\ user'[me].fd = fdOf[t]
      /\ user'[me].password = user[me].password
      /\ \A s \in Rec \ {me} : user'[s] = user[s]
  BY <1>1, <1>2 DEF Record
<1>8. Session' = [Session EXCEPT ![user[me].name] = fdOf[t]]
  <2>1. Session' = [Session EXCEPT ![user'[me].name] = user'[me].fd]
    BY <1>2, <1>4, <1>6, <1>7, OneSession
  <2>2. QED
    BY <1>7, <2>1
<1>9. Accounts' = Accounts
  <2>1. \A r \in listed : Row(r)' = Row(r)
    BY <1>2, <1>7 DEF Row
  <2>2. QED
    BY <1>4, <1>5, <2>1 DEF Accounts
<1>10. Row(me) \in Accounts /\ Row(me).name = user[me].name
  BY <1>2, <1>4, <1>5 DEF Accounts, Row
<1>11. Session[user[me].name] = NoFd
  BY <1>2, <1>4, <1>6, SessionIs DEF SessionByName
<1>12. \A s \in Visible : user[s].fd # fdOf[t]
  BY <1>1, <1>2, <1>4 DEF ThreadsApart, Active, HasUser
<1>13. fdOf[t] \notin Chat!InUse
  BY <1>2, <1>12, FreshSocket
<1>14. Chat!Login(user[me].name, fdOf[t])
  BY <1>8, <1>9, <1>10, <1>11, <1>13 DEF Chat!Login, Chat!HasAccount
<1>15. QED
  BY <1>2, <1>6, <1>14

LEMMA DisconnectLogsOut ==
  ASSUME IInv, IInv', Bye \/ ClientCrash
  PROVE  \E n \in Name : Chat!Logout(n)
<1>1. /\ mpc \in HandlingPC /\ mutex = Nobody /\ up
      /\ UNCHANGED <<up, listed, pc, found>>
  BY DEF Bye, ClientCrash, MainAt, HandlingPC, threadVars
<1>2. /\ TypeOK /\ MutexInv /\ DistinctInv /\ DistinctInv' /\ RecordInv(cur)
      /\ cur \in listed /\ user[cur].fd = currfd /\ currfd \in Fd
      /\ user \in [Rec -> Record] /\ listed \subseteq Rec
  BY <1>1 DEF IInv, ServerInv, TypeOK, MainInv, RecordsInv
<1>3. user' = [user EXCEPT ![cur].connected = FALSE, ![cur].fd = NoFd]
  <2>1. GetUserByFD(currfd) = cur
    BY <1>2, GetUserByFDFinds, ServerAssumption DEF DistinctInv
  <2>2. GetUser(user[cur].name) = cur
    BY <1>2, GetUserFinds DEF DistinctInv
  <2>3. QED
    BY <2>1, <2>2 DEF Bye, ClientCrash, DisconnectUser
<1>4. Visible = listed /\ Visible' = listed
  BY <1>1, <1>2, InsideAlone DEF Visible, InsidePC
<1>5. /\ user'[cur].name = user[cur].name /\ user'[cur].fd = NoFd
      /\ user'[cur].password = user[cur].password
      /\ \A s \in Rec \ {cur} : user'[s] = user[s]
  BY <1>2, <1>3 DEF Record
<1>6. user[cur].name \in Name
  BY <1>2 DEF RecordInv
<1>7. Session' = [Session EXCEPT ![user[cur].name] = NoFd]
  <2>1. Session' = [Session EXCEPT ![user'[cur].name] = user'[cur].fd]
    BY <1>2, <1>4, <1>5, <1>6, OneSession
  <2>2. QED
    BY <1>5, <2>1
<1>8. Accounts' = Accounts
  <2>1. \A r \in listed : Row(r)' = Row(r)
    BY <1>2, <1>5 DEF Row
  <2>2. QED
    BY <1>1, <1>4, <2>1 DEF Accounts
<1>9. Session[user[cur].name] # NoFd
  BY <1>2, <1>4, <1>6, SessionIs, ServerAssumption DEF SessionByName
<1>10. Chat!Logout(user[cur].name)
  BY <1>7, <1>8, <1>9 DEF Chat!Logout
<1>11. QED
  BY <1>6, <1>10

LEMMA HaltStopsService == ASSUME IInv, IInv', Halt PROVE Chat!Stop
<1>1. up /\ ~up' /\ db' = db /\ listed' = {}
  BY HaltFrame DEF Halt
<1>2. DbInv /\ DistinctInv'
  BY DEF IInv, ServerInv, RecordsInv
<1>3. Accounts' = IF HasAccounts THEN Accounts ELSE {}
  BY <1>1, <1>2 DEF Accounts, DbInv
<1>4. \A n \in Name : Session'[n] = NoFd
  BY <1>1, <1>2, SessionIsNext DEF SessionByName, Visible
<1>5. Session' = [n \in Name |-> NoFd]
  BY <1>4 DEF Session
<1>6. QED
  BY <1>3, <1>5 DEF Chat!Stop

LEMMA StartKeepsService ==
  ASSUME IInv, IInv', Start PROVE UNCHANGED <<Accounts, Session>>
<1>1. /\ ~up /\ up' /\ db' = db /\ sock' = sock
      /\ db = {} => listed' = {}
  BY DEF Start
<1>2. /\ DistinctInv /\ DistinctInv' /\ DbInv /\ DbInv' /\ listed = {}
      /\ \A f \in Fd : sock[f] = "free"
      /\ \A r \in listed' : user'[r].fd \in Fd => sock'[user'[r].fd] # "free"
      /\ \A r \in listed' : user'[r].fd \in Fd \cup {NoFd}
  <2>1. \A r \in listed' : user'[r].fd \in Fd \cup {NoFd}
    BY DEF IInv, TypeOK, Record
  <2>2. \A r \in listed' : user'[r].fd \in Fd => sock'[user'[r].fd] # "free"
    BY ServerAssumption DEF IInv, ServerInv, RecordsInv, RecordInv
  <2>3. QED
    BY <1>1, <2>1, <2>2 DEF IInv, ServerInv, RecordsInv, DownInv
<1>3. Accounts' = Accounts
  <2>1. Visible' \subseteq listed'
    BY DEF Visible
  <2>2. CASE HasAccounts
    BY <1>1, <1>2, <2>2 DEF Accounts, DbInv
  <2>3. CASE ~HasAccounts
    BY <1>1, <1>2, <2>1, <2>3 DEF Accounts, DbInv
  <2>4. QED
    BY <2>2, <2>3
<1>4. ASSUME NEW n \in Name PROVE Session[n] = NoFd /\ Session'[n] = NoFd
  <2>1. Session[n] = NoFd
    BY <1>2, SessionIs DEF SessionByName, Visible
  <2>2. \A r \in Visible' : user'[r].fd = NoFd
    BY <1>1, <1>2 DEF Visible
  <2>3. Session'[n] = NoFd
    <3>1. CASE \E r \in Visible' : user'[r].name = n
      BY <1>2, <2>2, <3>1, SessionIsNext DEF SessionByName
    <3>2. CASE ~\E r \in Visible' : user'[r].name = n
      BY <1>2, <3>2, SessionIsNext DEF SessionByName
    <3>3. QED
      BY <3>1, <3>2
  <2>4. QED
    BY <2>1, <2>3
<1>5. Session' = Session
  <2>1. \A n \in Name : Session'[n] = Session[n]
    BY <1>4
  <2>2. Session = [n \in Name |-> Session[n]] /\ Session' = [n \in Name |-> Session'[n]]
    BY <1>2, SessionIs, SessionIsNext DEF SessionByName
  <2>3. QED
    BY <2>1, <2>2
<1>6. QED
  BY <1>3, <1>5

(* Every other step leaves the service as it is. *)
LEMMA ServiceStep ==
  ASSUME IInv, IInv', [Next]_vars PROVE [Chat!Next]_(Chat!vars)
<1> DEFINE Same == UNCHANGED <<Accounts, Session>>
<1>0. /\ TypeOK /\ MutexInv /\ DistinctInv /\ DistinctInv' /\ DownInv
      /\ user \in [Rec -> Record] /\ listed \subseteq Rec
      /\ pc \in [Thread -> ThreadPC] /\ found \in [Thread -> Rec \cup {NoRec}]
  BY DEF IInv, ServerInv, RecordsInv, TypeOK
<1>1. ASSUME up, up' = up, UNCHANGED <<listed, user>>,
             \A t \in Thread : (pc'[t] = "savedb") = (pc[t] = "savedb"),
             \A t \in Thread : pc[t] = "savedb" => found'[t] = found[t]
      PROVE  Same
  <2>1. Visible' = Visible
    BY <1>1 DEF Visible
  <2>2. QED
    BY <1>0, <1>1, <2>1, SameService
<1>2. CASE MainMove
  <2>1. up
    BY <1>2 DEF MainMove, Build, EndRound, ReadTime, ReadListu, Listu, ReadMsg, CheckTo,
                SendMsg, ReadBye, UoffBye, UoffCrash, Handle, LookupTo, MainAt
  <2>2. Same
    BY <1>2, <2>1, <1>1, MainMoveFrame
  <2>3. QED
    BY <2>2 DEF Chat!vars
<1>3. ASSUME NEW t \in Thread, ThreadMove(t), ~SaveDb(t) PROVE Same
  <2>1. ThreadFrame(t) /\ pc[t] # "savedb" /\ pc'[t] # "savedb"
    BY <1>0, <1>3, ThreadMoveFrame, OtherMoves
  <2>2. up
    BY <1>0, <2>1 DEF ThreadFrame, Active, DownInv
  <2>3. QED
    BY <1>1, <2>1, <2>2 DEF ThreadFrame
<1>4. ASSUME NEW t \in Thread, TakeConnection(t) PROVE Same
  <2>1. up
    BY <1>0, <1>4 DEF TakeConnection, DownInv
  <2>2. QED
    BY <1>0, <1>1, <1>4, <2>1 DEF TakeConnection, Goto, listVars
<1>5. ASSUME NEW t \in Thread, NEW p \in Valid, NEW r \in Rec, NewPass(t, p, r)
      PROVE  Same
  <2>1. /\ pc[t] = "newpass" /\ pc' = [pc EXCEPT ![t] = "savedb"]
        /\ found' = [found EXCEPT ![t] = r] /\ up' = up
        /\ r \notin listed /\ listed' = listed \cup {r}
    BY <1>5 DEF NewPass, Goto
  <2>2. \A u \in Thread : pc[u] # "savedb"
    BY <1>0, <2>1, InsideAlone DEF InsidePC
  <2>3. Visible' = Visible
    BY <1>0, <2>1, <2>2 DEF Visible
  <2>4. \A s \in Visible : user'[s] = user[s]
    BY <1>0, <1>5 DEF NewPass, Visible
  <2>5. up
    BY <1>0, <2>1 DEF DownInv
  <2>6. QED
    BY <1>0, <2>1, <2>3, <2>4, <2>5, SameService
<1>6. ASSUME NEW t \in Thread, NEW p \in Password, Pass(t, p) PROVE Same
  <2>1. listed' = listed
    BY <1>6, NothingRemoved DEF Pass, Active, HasUser, IInv, ServerInv
  <2>2. up /\ up'
    BY <1>0, <1>6 DEF Pass, DownInv
  <2>3. Visible' = Visible
    BY <1>0, <1>6, <2>1 DEF Pass, Goto, Visible
  <2>4. \A s \in Visible : /\ user'[s].name = user[s].name /\ user'[s].fd = user[s].fd
                           /\ user'[s].password = user[s].password
    BY <1>0, <1>6 DEF Pass, Record, Visible
  <2>5. QED
    BY <1>0, <2>2, <2>3, <2>4, SameService
<1>7. ASSUME NEW t \in Thread, NEW f \in Fd, Accept(f, t) PROVE Same
  BY <1>0, <1>1, <1>7 DEF Accept, Goto, listVars, MainAt
<1>8. ASSUME \/ \E f \in Fd : AcceptPooled(f) \/ Vanish(f)
             \/ Enqueue \/ CloseBye
      PROVE  Same
  <2>1. UNCHANGED <<up, listed, user, pc, found>>
    BY <1>8 DEF AcceptPooled, Vanish, Enqueue, CloseBye, listVars, threadVars
  <2>2. up
    BY <1>0, <1>8 DEF AcceptPooled, Vanish, Enqueue, CloseBye, MainAt, DownInv
  <2>3. QED
    BY <1>1, <2>1, <2>2
<1>9. ASSUME UNCHANGED vars PROVE Same
  BY <1>9 DEF vars, diskVars, listVars, threadVars, Accounts, Session, Visible, Row
<1>10. ASSUME NEW t \in Thread, SaveDb(t) PROVE Chat!Next
  BY <1>10, SaveDbRegisters DEF Chat!Next
<1>11. ASSUME NEW t \in Thread, LoginFd(t) PROVE Chat!Next
  BY <1>11, LoginFdLogsIn DEF Chat!Next
<1>12. ASSUME Bye \/ ClientCrash PROVE Chat!Next
  BY <1>12, DisconnectLogsOut DEF Chat!Next
<1>13. ASSUME Halt PROVE Chat!Next
  BY <1>13, HaltStopsService DEF Chat!Next
<1>14. ASSUME Start PROVE Same
  BY <1>14, StartKeepsService
<1>15. QED
  BY StepCases, <1>2, <1>3, <1>4, <1>5, <1>6, <1>7, <1>8, <1>9, <1>10, <1>11, <1>12,
     <1>13, <1>14 DEF Chat!vars

(* The threads, the mutex and the table implement the service of ChatService. *)
THEOREM ServerImplementsChat == Spec => ImplementsChat
<1>1. ASSUME Init PROVE Chat!Init
  <2>1. listed = {} /\ up
    BY <1>1 DEF Init
  <2>2. Accounts = {} /\ Session = [n \in Name |-> NoFd]
    BY <2>1 DEF Accounts, Session, Visible
  <2>3. QED
    BY <2>2 DEF Chat!Init
<1>2. IInv /\ IInv' /\ [Next]_vars => [Chat!Next]_(Chat!vars)
  BY ServiceStep
<1>3. QED
  BY <1>1, <1>2, Invariance, PTL DEF Spec, ImplementsChat, Chat!Spec
=============================================================================
