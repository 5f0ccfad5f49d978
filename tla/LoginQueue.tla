----------------------------- MODULE LoginQueue -----------------------------
(***************************************************************************)
(* The login queue of hw6/server.c: a doubly linked list of calloc'ed      *)
(* nodes between login_head and login_tail, guarded by the global mutex    *)
(* and counted by the semaphore queueItems.  The main thread adds each     *)
(* accepted connection at the head (addLoginQueue) and lists the queue for *)
(* the operator's /listq (printLoginQueue); the pool threads take          *)
(* connections from the tail (popLoginQueue) in loginThreadLimit's loop.   *)
(*                                                                         *)
(* A critical section is split where another thread could come between     *)
(* its reads and its writes if the mutex were not held.  contents is a     *)
(* history variable: the nodes from login_tail to login_head, in the order *)
(* in which they were added.  No action reads it to decide anything.       *)
(***************************************************************************)
EXTENDS Integers, Sequences, FiniteSets

CONSTANTS Conn,    \* accepted connections
          Node,    \* addresses calloc can return
          Worker,  \* the thread_count threads of the pool
          Main,    \* the main thread, as a holder of the mutex
          Nobody,  \* no thread holds the mutex
          NULL

ASSUME WorkerAssumption == IsFiniteSet(Worker)
ASSUME DistinctAssumption ==
  /\ Main \notin Worker
  /\ Nobody \notin Worker \cup {Main}
  /\ NULL \notin Node \cup Conn

VARIABLES mutex,                   \* holder of the global mutex
          queueItems,              \* value of the semaphore
          login_head, login_tail,  \* the ends of the list
          live,                    \* nodes allocated and not yet freed
          user, prev, next,        \* the fields of the nodes
          mpc, add, temp, curr,    \* main thread: control and locals
          wpc, holder, tbRet,      \* pool threads: control and locals
          contents                 \* history: nodes from tail to head

mainVars == <<mpc, add, temp, curr>>
workerVars == <<wpc, holder, tbRet>>
listVars == <<login_head, login_tail, live, user, prev, next, contents>>
vars == <<mutex, queueItems, mainVars, workerVars, listVars>>

Init ==
  /\ mutex = Nobody
  /\ queueItems = 0
  /\ login_head = NULL
  /\ login_tail = NULL
  /\ live = {}
  /\ user = [n \in Node |-> NULL]
  /\ prev = [n \in Node |-> NULL]
  /\ next = [n \in Node |-> NULL]
  /\ mpc = "select" /\ add = NULL /\ temp = NULL /\ curr = NULL
  /\ wpc = [w \in Worker |-> "wait"]
  /\ holder = [w \in Worker |-> NULL]
  /\ tbRet = [w \in Worker |-> NULL]
  /\ contents = <<>>

-----------------------------------------------------------------------------
(* The mutex.  Its recursion does not show here: no section nests. *)

MainLocks(from, to) ==
  /\ mpc = from /\ mutex = Nobody
  /\ mutex' = Main
  /\ mpc' = to
  /\ UNCHANGED <<queueItems, add, temp, curr, workerVars, listVars>>

MainUnlocks(from, to) ==
  /\ mpc = from
  /\ mutex' = Nobody
  /\ mpc' = to
  /\ UNCHANGED <<queueItems, add, temp, curr, workerVars, listVars>>

-----------------------------------------------------------------------------
(* addLoginQueue, called by handleOnAccept for a new connection. *)

Queued == {user[n] : n \in {contents[i] : i \in DOMAIN contents}}
InService == {tbRet[w] : w \in {v \in Worker : wpc[v] \in {"unlock", "serve"}}}

Accept(c) ==
  /\ mpc = "select"
  /\ c \notin Queued \cup InService
  /\ add' = c
  /\ mpc' = "add"
  /\ UNCHANGED <<mutex, queueItems, temp, curr, workerVars, listVars>>

AddLock == MainLocks("add", "create")

(* createQueueNode: a zeroed node; then the emptiness test of the list.     *)
(* Node bounds the queue: with every address in use, main waits here.       *)
AddCreate(n) ==
  /\ mpc = "create" /\ n \notin live
  /\ live' = live \cup {n}
  /\ user' = [user EXCEPT ![n] = add]
  /\ prev' = [prev EXCEPT ![n] = NULL]
  /\ next' = [next EXCEPT ![n] = NULL]
  /\ temp' = n
  /\ mpc' = IF login_tail = NULL /\ login_head = NULL THEN "first" ELSE "push"
  /\ UNCHANGED <<mutex, queueItems, add, curr, workerVars, login_head,
                 login_tail, contents>>

AddFirst ==
  /\ mpc = "first"
  /\ login_tail' = temp
  /\ login_head' = temp
  /\ contents' = Append(contents, temp)
  /\ mpc' = "unlockAdd"
  /\ UNCHANGED <<mutex, queueItems, add, temp, curr, workerVars, live, user,
                 prev, next>>

(* Mutant: the old head is not linked back to the new node. *)
AddPushOneWay ==
  /\ mpc = "push"
  /\ next' = [next EXCEPT ![temp] = login_head]
  /\ login_head' = temp
  /\ contents' = Append(contents, temp)
  /\ mpc' = "unlockAdd"
  /\ UNCHANGED <<mutex, queueItems, add, temp, curr, workerVars, login_tail,
                 live, user, prev>>

AddPush ==
  /\ mpc = "push"
  /\ next' = [next EXCEPT ![temp] = login_head]
  /\ prev' = [prev EXCEPT ![login_head] = temp]
  /\ login_head' = temp
  /\ contents' = Append(contents, temp)
  /\ mpc' = "unlockAdd"
  /\ UNCHANGED <<mutex, queueItems, add, temp, curr, workerVars, login_tail,
                 live, user>>

AddUnlock == MainUnlocks("unlockAdd", "post")

(* Mutant: the semaphore is a flag, so that two quick posts count once. *)
AddPostFlag ==
  /\ mpc = "post"
  /\ queueItems' = 1
  /\ mpc' = "select"
  /\ add' = NULL /\ temp' = NULL
  /\ UNCHANGED <<mutex, curr, workerVars, listVars>>

(* sem_post comes after the unlock: between the two, the list holds a node  *)
(* that the semaphore does not count yet.                                   *)
AddPost ==
  /\ mpc = "post"
  /\ queueItems' = queueItems + 1
  /\ mpc' = "select"
  /\ add' = NULL /\ temp' = NULL
  /\ UNCHANGED <<mutex, curr, workerVars, listVars>>

-----------------------------------------------------------------------------
(* printLoginQueue, for the operator's /listq. *)

(* Mutant: /listq walks the list without locking. *)
ListWithoutLock ==
  /\ mpc = "select"
  /\ mpc' = "listStart"
  /\ UNCHANGED <<mutex, queueItems, add, temp, curr, workerVars, listVars>>

ListLock == MainLocks("select", "listStart")

ListStart ==
  /\ mpc = "listStart"
  /\ curr' = login_head
  /\ mpc' = "listing"
  /\ UNCHANGED <<mutex, queueItems, add, temp, workerVars, listVars>>

ListStep ==
  /\ mpc = "listing" /\ curr # NULL
  /\ curr' = next[curr]
  /\ UNCHANGED <<mutex, queueItems, mpc, add, temp, workerVars, listVars>>

ListUnlock == curr = NULL /\ MainUnlocks("listing", "select")

-----------------------------------------------------------------------------
(* popLoginQueue, called in the loop of loginThreadLimit. *)

(* Mutant: sem_trywait with its result ignored. *)
PopWaitNoTest(w) ==
  /\ wpc[w] = "wait"
  /\ queueItems' = queueItems - 1
  /\ wpc' = [wpc EXCEPT ![w] = "lock"]
  /\ UNCHANGED <<mutex, mainVars, holder, tbRet, listVars>>

(* Mutant: the semaphore is tested and not taken. *)
PopWaitNoTake(w) ==
  /\ wpc[w] = "wait" /\ queueItems > 0
  /\ wpc' = [wpc EXCEPT ![w] = "lock"]
  /\ UNCHANGED <<mutex, queueItems, mainVars, holder, tbRet, listVars>>

PopWait(w) ==
  /\ wpc[w] = "wait" /\ queueItems > 0
  /\ queueItems' = queueItems - 1
  /\ wpc' = [wpc EXCEPT ![w] = "lock"]
  /\ UNCHANGED <<mutex, mainVars, holder, tbRet, listVars>>

(* Mutant: the pop does not take the mutex. *)
PopWithoutLock(w) ==
  /\ wpc[w] = "lock"
  /\ wpc' = [wpc EXCEPT ![w] = "read"]
  /\ UNCHANGED <<mutex, queueItems, mainVars, holder, tbRet, listVars>>

PopLock(w) ==
  /\ wpc[w] = "lock" /\ mutex = Nobody
  /\ mutex' = w
  /\ wpc' = [wpc EXCEPT ![w] = "read"]
  /\ UNCHANGED <<queueItems, mainVars, holder, tbRet, listVars>>

(* Mutant: the pop takes the newest node. *)
PopReadHead(w) ==
  /\ wpc[w] = "read"
  /\ holder' = [holder EXCEPT ![w] = login_head]
  /\ wpc' = [wpc EXCEPT ![w] = IF login_head = NULL THEN "unlock" ELSE "unlink"]
  /\ UNCHANGED <<mutex, queueItems, mainVars, tbRet, listVars>>

PopRead(w) ==
  /\ wpc[w] = "read"
  /\ holder' = [holder EXCEPT ![w] = login_tail]
  /\ wpc' = [wpc EXCEPT ![w] = IF login_tail = NULL THEN "unlock" ELSE "unlink"]
  /\ UNCHANGED <<mutex, queueItems, mainVars, tbRet, listVars>>

PopUnlink(w) ==
  /\ wpc[w] = "unlink"
  /\ login_tail' = prev[login_tail]
  /\ IF prev[holder[w]] = NULL
       THEN /\ login_head' = NULL
            /\ UNCHANGED next
       ELSE /\ next' = [next EXCEPT ![login_tail'] = NULL]
            /\ UNCHANGED login_head
  /\ tbRet' = [tbRet EXCEPT ![w] = user[holder[w]]]
  /\ live' = live \ {holder[w]}
  /\ contents' = Tail(contents)
  /\ wpc' = [wpc EXCEPT ![w] = "unlock"]
  /\ UNCHANGED <<mutex, queueItems, mainVars, holder, user, prev>>

(* A pop that found nothing returns NULL and the loop goes back to wait. *)
PopUnlock(w) ==
  /\ wpc[w] = "unlock"
  /\ mutex' = Nobody
  /\ wpc' = [wpc EXCEPT ![w] = IF tbRet[w] = NULL THEN "wait" ELSE "serve"]
  /\ holder' = [holder EXCEPT ![w] = NULL]
  /\ UNCHANGED <<queueItems, mainVars, tbRet, listVars>>

(* loginProtocol returned: the thread loops. *)
Served(w) ==
  /\ wpc[w] = "serve"
  /\ wpc' = [wpc EXCEPT ![w] = "wait"]
  /\ tbRet' = [tbRet EXCEPT ![w] = NULL]
  /\ UNCHANGED <<mutex, queueItems, mainVars, holder, listVars>>

(* The client of the connection vanished: checkClientCrash ends the thread. *)
Crashed(w) ==
  /\ wpc[w] = "serve"
  /\ wpc' = [wpc EXCEPT ![w] = "dead"]
  /\ tbRet' = [tbRet EXCEPT ![w] = NULL]
  /\ UNCHANGED <<mutex, queueItems, mainVars, holder, listVars>>

-----------------------------------------------------------------------------
AddQueue ==
  \/ AddLock \/ AddFirst \/ AddPush \/ AddUnlock \/ AddPost
  \/ \E n \in Node : AddCreate(n)

PrintQueue == ListStart \/ ListStep \/ ListUnlock

PopQueue(w) ==
  PopWait(w) \/ PopLock(w) \/ PopRead(w) \/ PopUnlink(w) \/ PopUnlock(w)

Next ==
  \/ \E c \in Conn : Accept(c)
  \/ ListLock
  \/ AddQueue
  \/ PrintQueue
  \/ \E w \in Worker : PopQueue(w) \/ Served(w) \/ Crashed(w)

Spec == Init /\ [][Next]_vars

(* A thread that can run does run.  Nothing is assumed of new connections,  *)
(* of the operator, or of how long a login dialogue lasts.  A pool thread   *)
(* that finds the mutex free again and again gets it in the end: the other  *)
(* holders here keep it for a few instructions, at the pace of accepts and  *)
(* of a typing operator.  (A login at its password prompt keeps it for as   *)
(* long as the client likes: ChatServer shows what becomes of that.)        *)
FairSpec ==
  /\ Spec
  /\ WF_vars(AddQueue) /\ WF_vars(PrintQueue)
  /\ \A w \in Worker : WF_vars(PopQueue(w)) /\ SF_vars(PopLock(w))

-----------------------------------------------------------------------------
MainPC == {"select", "add", "create", "first", "push", "unlockAdd", "post",
           "listStart", "listing"}
WorkerPC == {"wait", "lock", "read", "unlink", "unlock", "serve", "dead"}

MainInside == {"create", "first", "push", "unlockAdd", "listStart", "listing"}
WorkerInside == {"read", "unlink", "unlock"}

TypeOK ==
  /\ mutex \in Worker \cup {Main, Nobody}
  /\ queueItems \in Nat
  /\ login_head \in Node \cup {NULL} /\ login_tail \in Node \cup {NULL}
  /\ live \subseteq Node
  /\ user \in [Node -> Conn \cup {NULL}]
  /\ prev \in [Node -> Node \cup {NULL}]
  /\ next \in [Node -> Node \cup {NULL}]
  /\ mpc \in MainPC /\ add \in Conn \cup {NULL}
  /\ temp \in Node \cup {NULL} /\ curr \in Node \cup {NULL}
  /\ wpc \in [Worker -> WorkerPC]
  /\ holder \in [Worker -> Node \cup {NULL}]
  /\ tbRet \in [Worker -> Conn \cup {NULL}]
  /\ contents \in Seq(Node)

(* The list is well formed whenever no thread is inside a critical section: *)
(* login_tail and login_head are the oldest and the newest node, prev leads *)
(* towards the head, next towards the tail, both end in NULL, and exactly   *)
(* the listed nodes are allocated.                                          *)
ListIntact ==
  mutex = Nobody =>
    LET len == Len(contents) IN
    /\ login_tail = IF len = 0 THEN NULL ELSE contents[1]
    /\ login_head = IF len = 0 THEN NULL ELSE contents[len]
    /\ \A i \in 1..len :
         /\ prev[contents[i]] = IF i = len THEN NULL ELSE contents[i + 1]
         /\ next[contents[i]] = IF i = 1 THEN NULL ELSE contents[i - 1]
    /\ live = {contents[i] : i \in 1..len}

(* No thread follows a pointer to a node another thread has freed: the pop   *)
(* unlinks an allocated node, the push links behind one, and /listq visits   *)
(* allocated nodes only.                                                     *)
NoUseAfterFree ==
  /\ \A w \in Worker : wpc[w] = "unlink" => holder[w] \in live
  /\ mpc = "push" => login_head \in live
  /\ mpc = "listing" /\ curr # NULL => curr \in live

Popping == {w \in Worker : wpc[w] \in {"lock", "read", "unlink"}}
Unposted == IF mpc \in {"unlockAdd", "post"} THEN 1 ELSE 0

(* The semaphore and the list agree: every node is counted by the semaphore, *)
(* claimed by a thread that has passed sem_wait, or about to be posted.      *)
CountMatches == Len(contents) = queueItems + Cardinality(Popping) + Unposted

(* A thread that has passed sem_wait finds a node: popLoginQueue's NULL      *)
(* return, and the test for it in loginThreadLimit, are never taken.         *)
PopFindsNode == \A w \in Worker : wpc[w] = "read" => login_tail # NULL

(* A connection is in one place: no two nodes hold it, no two threads log it *)
(* in, and no thread logs in a connection that is still queued.              *)
OneOwner ==
  /\ \A i, j \in 1..Len(contents) :
       user[contents[i]] = user[contents[j]] => i = j
  /\ \A v, w \in Worker : tbRet[v] = tbRet[w] /\ tbRet[v] # NULL => v = w
  /\ \A w \in Worker, i \in 1..Len(contents) : tbRet[w] # user[contents[i]]

(* The queue is the first-come first-served service of LoginService.        *)
Service == INSTANCE LoginService WITH
  waiting <- [i \in 1..Len(contents) |-> user[contents[i]]],
  serving <- tbRet

ImplementsService == Service!Spec

(* A queued connection is taken by a thread, unless every thread of the pool *)
(* is held up in a login dialogue or dead: with a thread idle, no connection *)
(* is left behind by a lost wake-up.                                         *)
IsQueued(c) == c \in Queued
NotStranded ==
  \A c \in Conn : IsQueued(c) ~>
    \/ ~IsQueued(c)
    \/ \A w \in Worker : wpc[w] \in {"serve", "dead"}
=============================================================================
