-------------------------- MODULE LoginQueueProofs --------------------------
(***************************************************************************)
(* Theorems about LoginQueue for any connections, node addresses and pool  *)
(* size: the list is never seen half-linked, the semaphore and the list    *)
(* agree, a pop always finds a node, nothing freed is followed, and the    *)
(* queue implements the first-come first-served LoginService.              *)
(***************************************************************************)
EXTENDS LoginQueue, FiniteSetTheorems, TLAPS

(* Who is inside a critical section holds the mutex. *)
MutexInv ==
  /\ mpc \in MainInside <=> mutex = Main
  /\ \A w \in Worker : wpc[w] \in WorkerInside <=> mutex = w

(* The node main has allocated and not linked yet. *)
Pending == IF mpc \in {"first", "push"} THEN {temp} ELSE {}
Listed == {contents[i] : i \in 1..Len(contents)}

Ends ==
  /\ login_tail = IF Len(contents) = 0 THEN NULL ELSE contents[1]
  /\ login_head = IF Len(contents) = 0 THEN NULL ELSE contents[Len(contents)]

Links ==
  \A i \in 1..Len(contents) :
    /\ prev[contents[i]] = IF i = Len(contents) THEN NULL ELSE contents[i + 1]
    /\ next[contents[i]] = IF i = 1 THEN NULL ELSE contents[i - 1]

NoRepeat == \A i, j \in 1..Len(contents) : contents[i] = contents[j] => i = j

Allocated == live = Listed \cup Pending

PendingInv ==
  /\ mpc \in {"first", "push"} =>
       /\ temp \in Node /\ temp \notin Listed
       /\ prev[temp] = NULL /\ next[temp] = NULL
       /\ user[temp] = add
  /\ mpc = "first" => Len(contents) = 0
  /\ mpc = "push" => Len(contents) # 0

LocalsInv ==
  /\ mpc \in {"add", "create", "first", "push"} => add # NULL
  /\ mpc = "listing" => curr \in Listed \cup {NULL}
  /\ \A w \in Worker :
       /\ wpc[w] = "unlink" => Len(contents) # 0 /\ holder[w] = contents[1]
       /\ wpc[w] \notin {"unlock", "serve"} => tbRet[w] = NULL
       /\ wpc[w] = "serve" => tbRet[w] # NULL

ListInv ==
  /\ MutexInv /\ Ends /\ Links /\ NoRepeat /\ Allocated /\ PendingInv /\ LocalsInv

IInv == TypeOK /\ ListInv /\ CountMatches

-----------------------------------------------------------------------------
(* Every step keeps the types, given that the list is intact. *)
LEMMA TypeStep == ASSUME TypeOK, ListInv, [Next]_vars PROVE TypeOK'
<1> USE DEF TypeOK, MainPC, WorkerPC, listVars, mainVars, workerVars
<1>1. ASSUME NEW c \in Conn, Accept(c) PROVE TypeOK'
  BY <1>1 DEF Accept
<1>2. CASE ListLock
  BY <1>2 DEF ListLock, MainLocks
<1>3. CASE AddLock \/ AddUnlock \/ AddPost
  BY <1>3 DEF AddLock, AddUnlock, AddPost, MainLocks, MainUnlocks
<1>4. CASE AddFirst
  BY <1>4 DEF AddFirst, ListInv, PendingInv
<1>5. CASE AddPush
  <2>1. temp \in Node /\ login_head \in Node
    BY <1>5 DEF AddPush, ListInv, PendingInv, Ends
  <2>2. QED
    BY <1>5, <2>1 DEF AddPush
<1>6. ASSUME NEW n \in Node, AddCreate(n) PROVE TypeOK'
  BY <1>6 DEF AddCreate
<1>7. CASE PrintQueue
  BY <1>7 DEF PrintQueue, ListStart, ListStep, ListUnlock, MainUnlocks
<1>8. ASSUME NEW w \in Worker, PopWait(w) \/ PopLock(w) \/ PopRead(w)
      PROVE  TypeOK'
  BY <1>8 DEF PopWait, PopLock, PopRead
<1>9. ASSUME NEW w \in Worker, PopUnlink(w) PROVE TypeOK'
  <2>1. /\ Len(contents) # 0 /\ holder[w] = contents[1]
        /\ login_tail = contents[1] /\ contents[1] \in Node
    BY <1>9 DEF PopUnlink, ListInv, LocalsInv, Ends
  <2>2. Tail(contents) \in Seq(Node)
    BY <2>1
  <2>3. QED
    BY <1>9, <2>1, <2>2 DEF PopUnlink
<1>10. ASSUME NEW w \in Worker, PopUnlock(w) \/ Served(w) \/ Crashed(w)
       PROVE  TypeOK'
  BY <1>10 DEF PopUnlock, Served, Crashed
<1>11. CASE UNCHANGED vars
  BY <1>11 DEF vars
<1>12. QED
  BY <1>1, <1>2, <1>3, <1>4, <1>5, <1>6, <1>7, <1>8, <1>9, <1>10, <1>11
     DEF Next, AddQueue, PopQueue

(* Every step keeps the mutex with the thread inside a critical section. *)
LEMMA MutexStep == ASSUME TypeOK, MutexInv, [Next]_vars PROVE MutexInv'
<1> USE DistinctAssumption
    DEF TypeOK, MutexInv, MainPC, WorkerPC, MainInside, WorkerInside,
        mainVars, workerVars
<1>1. ASSUME NEW c \in Conn, Accept(c) PROVE MutexInv'
  BY <1>1 DEF Accept
<1>2. CASE ListLock
  BY <1>2 DEF ListLock, MainLocks
<1>3. CASE AddLock \/ AddUnlock \/ AddPost
  BY <1>3 DEF AddLock, AddUnlock, AddPost, MainLocks, MainUnlocks
<1>4. CASE AddFirst \/ AddPush
  BY <1>4 DEF AddFirst, AddPush
<1>5. ASSUME NEW n \in Node, AddCreate(n) PROVE MutexInv'
  BY <1>5 DEF AddCreate
<1>6. CASE PrintQueue
  BY <1>6 DEF PrintQueue, ListStart, ListStep, ListUnlock, MainUnlocks
<1>7. ASSUME NEW w \in Worker, PopQueue(w) PROVE MutexInv'
  BY <1>7 DEF PopQueue, PopWait, PopLock, PopRead, PopUnlink, PopUnlock
<1>8. ASSUME NEW w \in Worker, Served(w) \/ Crashed(w) PROVE MutexInv'
  BY <1>8 DEF Served, Crashed
<1>9. CASE UNCHANGED vars
  BY <1>9 DEF vars
<1>10. QED
  BY <1>1, <1>2, <1>3, <1>4, <1>5, <1>6, <1>7, <1>8, <1>9 DEF Next, AddQueue

(* What Append and Tail do to the positions of a sequence. *)
LEMMA AppendPositions ==
  ASSUME NEW S, NEW s \in Seq(S), NEW x \in S
  PROVE  /\ Append(s, x) \in Seq(S) /\ Len(Append(s, x)) = Len(s) + 1
         /\ Append(s, x)[Len(s) + 1] = x
         /\ \A i \in 1..Len(s) : Append(s, x)[i] = s[i]
  OBVIOUS

LEMMA TailPositions ==
  ASSUME NEW S, NEW s \in Seq(S), Len(s) # 0
  PROVE  /\ Tail(s) \in Seq(S) /\ Len(Tail(s)) = Len(s) - 1
         /\ \A i \in 1..(Len(s) - 1) : Tail(s)[i] = s[i + 1]
         /\ \A i \in 1..Len(s) : s[i] \in S
  OBVIOUS

LEMMA SequenceIsFunction ==
  ASSUME NEW S, NEW s \in Seq(S)
  PROVE  s = [i \in 1..Len(s) |-> s[i]]
  OBVIOUS

(* Linking the new node at the head keeps the list intact. *)
LEMMA LinkStep ==
  ASSUME TypeOK, ListInv, TypeOK', MutexInv', AddFirst \/ AddPush
  PROVE  ListInv'
<1> DEFINE len == Len(contents)
<1>0. /\ temp \in Node /\ temp \notin Listed
      /\ prev[temp] = NULL /\ next[temp] = NULL
      /\ mutex = Main
      /\ contents' = Append(contents, temp)
      /\ user' = user /\ live' = live /\ mpc' = "unlockAdd"
      /\ UNCHANGED <<add, temp, curr, wpc, holder, tbRet>>
  BY DEF ListInv, PendingInv, MutexInv, MainInside, AddFirst, AddPush,
         mainVars, workerVars
<1>1. /\ contents \in Seq(Node) /\ len \in Nat
      /\ contents' \in Seq(Node) /\ Len(contents') = len + 1
      /\ contents'[len + 1] = temp
      /\ \A i \in 1..len : contents'[i] = contents[i] /\ contents[i] \in Node
  BY <1>0, AppendPositions DEF TypeOK
<1>2. \A w \in Worker : wpc[w] # "unlink"
  BY <1>0, <1>1, DistinctAssumption DEF ListInv, MutexInv, WorkerInside
<1>3. Listed' = Listed \cup {temp}
  <2>1. Listed' \subseteq Listed \cup {temp}
    BY <1>1 DEF Listed
  <2>2. Listed \cup {temp} \subseteq Listed'
    <3>1. \A i \in 1..len : contents[i] \in Listed'
      BY <1>1 DEF Listed
    <3>2. temp \in Listed'
      BY <1>1 DEF Listed
    <3>3. QED
      BY <3>1, <3>2 DEF Listed
  <2>3. QED
    BY <2>1, <2>2
<1>4. Ends'
  <2>1. CASE AddFirst
    BY <1>0, <1>1, <2>1 DEF AddFirst, ListInv, Ends, PendingInv, TypeOK
  <2>2. CASE AddPush
    BY <1>0, <1>1, <2>2 DEF AddPush, ListInv, Ends, PendingInv, TypeOK
  <2>3. QED
    BY <2>1, <2>2
<1>5. Links'
  <2>1. CASE AddFirst
    BY <1>0, <1>1, <2>1 DEF AddFirst, ListInv, Links, PendingInv, TypeOK
  <2>2. CASE AddPush
    <3>1. /\ len # 0 /\ login_head = contents[len] /\ login_head \in Listed
          /\ login_head \in Node /\ login_head # temp
      BY <1>0, <1>1, <2>2 DEF AddPush, ListInv, Ends, PendingInv, TypeOK, Listed
    <3>2. /\ next'[temp] = login_head /\ prev'[temp] = NULL
          /\ prev'[login_head] = temp
          /\ \A n \in Node \ {temp} : next'[n] = next[n]
          /\ \A n \in Node \ {login_head} : prev'[n] = prev[n]
      BY <1>0, <1>1, <2>2, <3>1 DEF AddPush, TypeOK
    <3>3. \A i \in 1..len : contents[i] \in Node /\ contents[i] # temp
      BY <1>0, <1>1 DEF Listed, TypeOK
    <3>4. \A i \in 1..len : contents[i] = login_head => i = len
      BY <3>1 DEF ListInv, NoRepeat, TypeOK
    <3>5. ASSUME NEW i \in 1..(len + 1)
          PROVE  /\ prev'[contents'[i]] =
                      IF i = len + 1 THEN NULL ELSE contents'[i + 1]
                 /\ next'[contents'[i]] =
                      IF i = 1 THEN NULL ELSE contents'[i - 1]
      <4>1. CASE i = len + 1
        BY <1>0, <1>1, <3>1, <3>2, <4>1 DEF TypeOK
      <4>2. CASE i = len
        <5>1. contents'[i] = login_head /\ contents'[i + 1] = temp
          BY <1>1, <3>1, <4>2
        <5>2. next[contents[i]] = IF i = 1 THEN NULL ELSE contents[i - 1]
          BY <1>1, <3>1, <4>2 DEF ListInv, Links
        <5>3. i # 1 => contents'[i - 1] = contents[i - 1]
          BY <1>1, <3>1, <4>2
        <5>4. QED
          BY <1>1, <3>1, <3>2, <4>2, <5>1, <5>2, <5>3
      <4>3. CASE i \in 1..len /\ i # len
        <5>1. /\ contents'[i] = contents[i] /\ contents'[i + 1] = contents[i + 1]
              /\ i # 1 => contents'[i - 1] = contents[i - 1]
          BY <1>1, <4>3
        <5>2. /\ prev[contents[i]] = contents[i + 1]
              /\ next[contents[i]] = IF i = 1 THEN NULL ELSE contents[i - 1]
          BY <1>1, <4>3 DEF ListInv, Links
        <5>3. /\ contents[i] # login_head /\ contents[i] # temp
              /\ contents[i] \in Node
          BY <1>1, <3>3, <3>4, <4>3
        <5>4. QED
          BY <1>1, <3>2, <4>3, <5>1, <5>2, <5>3
      <4>4. QED
        BY <4>1, <4>2, <4>3 DEF TypeOK
    <3>6. QED
      BY <1>0, <1>1, <3>5 DEF Links
  <2>3. QED
    BY <2>1, <2>2
<1>6. NoRepeat'
  BY <1>0, <1>1 DEF ListInv, NoRepeat, Listed, TypeOK
<1>7. Allocated'
  <2>1. Pending = {temp} /\ Pending' = {}
    BY <1>0, <1>1 DEF AddFirst, AddPush, Pending
  <2>2. QED
    BY <1>0, <1>1, <1>3, <2>1 DEF ListInv, Allocated
<1>8. PendingInv'
  BY <1>0, <1>1 DEF PendingInv
<1>9. LocalsInv'
  BY <1>0, <1>1, <1>2 DEF ListInv, LocalsInv
<1>10. QED
  BY <1>4, <1>5, <1>6, <1>7, <1>8, <1>9 DEF ListInv

(* Unlinking the node at the tail keeps the list intact. *)
LEMMA UnlinkStep ==
  ASSUME TypeOK, ListInv, TypeOK', MutexInv', NEW w \in Worker, PopUnlink(w)
  PROVE  /\ ListInv'
         /\ Len(contents) # 0
         /\ tbRet'[w] = user[contents[1]]
<1> DEFINE len == Len(contents)
<1>1. /\ len \in Nat /\ len # 0 /\ holder[w] = contents[1]
      /\ login_tail = contents[1]
      /\ contents' = Tail(contents) /\ contents \in Seq(Node)
      /\ tbRet' = [tbRet EXCEPT ![w] = user[holder[w]]]
      /\ wpc' = [wpc EXCEPT ![w] = "unlock"]
      /\ mutex = w /\ wpc[w] = "unlink"
      /\ live' = live \ {contents[1]}
      /\ UNCHANGED <<mpc, add, temp, curr, holder, user, prev>>
  BY DEF TypeOK, ListInv, LocalsInv, MutexInv, WorkerInside, Ends, PopUnlink,
         mainVars
<1>2. /\ contents' \in Seq(Node) /\ Len(contents') = len - 1
      /\ \A i \in 1..(len - 1) : contents'[i] = contents[i + 1]
      /\ \A i \in 1..len : contents[i] \in Node
  BY <1>1, TailPositions
<1>3. mpc \notin MainInside
  BY <1>1, DistinctAssumption DEF ListInv, MutexInv
<1>4. contents[1] \notin Listed' /\ Listed = Listed' \cup {contents[1]}
  <2>1. contents[1] \notin Listed'
    BY <1>1, <1>2 DEF ListInv, NoRepeat, Listed
  <2>2. \A i \in 1..len : i = 1 \/ contents[i] = contents'[i - 1]
    BY <1>1, <1>2
  <2>3. Listed \subseteq Listed' \cup {contents[1]}
    <3>1. ASSUME NEW i \in 1..len, i # 1 PROVE contents[i] \in Listed'
      <4>1. i - 1 \in 1..Len(contents') /\ contents[i] = contents'[i - 1]
        BY <1>1, <1>2, <2>2, <3>1
      <4>2. QED
        BY <4>1 DEF Listed
    <3>2. QED
      BY <3>1 DEF Listed
  <2>4. Listed' \cup {contents[1]} \subseteq Listed
    BY <1>1, <1>2 DEF Listed
  <2>5. QED
    BY <2>1, <2>3, <2>4
<1>5. /\ login_tail' = IF len = 1 THEN NULL ELSE contents[2]
      /\ prev[contents[1]] = IF len = 1 THEN NULL ELSE contents[2]
  <2>1. prev[contents[1]] = IF len = 1 THEN NULL ELSE contents[2]
    <3>1. 1 \in 1..len
      BY <1>1
    <3>2. prev[contents[1]] =
            IF 1 = Len(contents) THEN NULL ELSE contents[1 + 1]
      BY <3>1 DEF ListInv, Links
    <3>3. QED
      BY <1>1, <3>2
  <2>2. QED
    BY <1>1, <2>1 DEF PopUnlink
<1>6. Ends'
  <2>1. CASE len = 1
    BY <1>1, <1>2, <1>5, <2>1 DEF PopUnlink, Ends
  <2>2. CASE len # 1
    <3>1. login_tail' = contents'[1] /\ Len(contents') # 0
      BY <1>1, <1>2, <1>5, <2>2
    <3>2. prev[contents[1]] # NULL
      BY <1>1, <1>2, <1>5, <2>2, DistinctAssumption
    <3>3. login_head' = login_head
      BY <1>1, <3>2 DEF PopUnlink
    <3>4. login_head = contents[len] /\ contents[len] = contents'[len - 1]
      BY <1>1, <1>2, <2>2 DEF ListInv, Ends
    <3>5. QED
      BY <1>1, <1>2, <3>1, <3>3, <3>4 DEF Ends
  <2>3. QED
    BY <2>1, <2>2
<1>7. Links'
  <2>1. CASE len = 1
    BY <1>1, <1>2, <2>1 DEF Links
  <2>2. CASE len # 1
    <3>1. prev[contents[1]] # NULL
      BY <1>1, <1>2, <1>5, <2>2, DistinctAssumption
    <3>2. next' = [next EXCEPT ![contents[2]] = NULL]
      BY <1>1, <1>5, <2>2, <3>1 DEF PopUnlink
    <3>3. \A i \in 1..len : contents[i] = contents[2] => i = 2
      <4>1. \A k \in Nat : k # 0 /\ k # 1 => 2 \in 1..k
        OBVIOUS
      <4>2. 2 \in 1..len
        BY <1>1, <2>2, <4>1, Zenon
      <4>3. \A i, j \in 1..len : contents[i] = contents[j] => i = j
        BY DEF ListInv, NoRepeat
      <4>4. QED
        BY <4>2, <4>3, Zenon
    <3>4. ASSUME NEW i \in 1..(len - 1)
          PROVE  /\ prev[contents'[i]] =
                      IF i = len - 1 THEN NULL ELSE contents'[i + 1]
                 /\ next'[contents'[i]] =
                      IF i = 1 THEN NULL ELSE contents'[i - 1]
      <4>1. i + 1 \in 1..len /\ contents'[i] = contents[i + 1]
        BY <1>1, <1>2
      <4>2. prev[contents[i + 1]] =
              IF i + 1 = len THEN NULL ELSE contents[i + 2]
        BY <1>1, <4>1 DEF ListInv, Links
      <4>3. i # len - 1 => contents'[i + 1] = contents[i + 2]
        <5>1. i # len - 1 => i + 1 \in 1..(len - 1) /\ (i + 1) + 1 = i + 2
          BY <1>1
        <5>2. QED
          BY <1>2, <5>1
      <4>4. CASE i = 1
        BY <1>1, <1>2, <3>2, <4>1, <4>2, <4>3, <4>4 DEF TypeOK
      <4>5. CASE i # 1
        <5>1. next'[contents[i + 1]] = next[contents[i + 1]]
          BY <1>1, <1>2, <3>2, <3>3, <4>1, <4>5 DEF TypeOK
        <5>2. next[contents[i + 1]] = contents[i]
          BY <1>1, <4>1, <4>5 DEF ListInv, Links
        <5>3. contents'[i - 1] = contents[i]
          BY <1>1, <1>2, <4>5
        <5>4. QED
          BY <1>1, <4>1, <4>2, <4>3, <4>5, <5>1, <5>2, <5>3
      <4>6. QED
        BY <4>4, <4>5
    <3>5. QED
      BY <1>1, <1>2, <3>4 DEF Links
  <2>3. QED
    BY <2>1, <2>2
<1>8. NoRepeat'
  BY <1>1, <1>2 DEF ListInv, NoRepeat
<1>9. Allocated' /\ PendingInv'
  <2>1. Pending = {} /\ Pending' = {}
    BY <1>1, <1>3 DEF Pending, MainInside
  <2>2. QED
    BY <1>1, <1>3, <1>4, <2>1
       DEF ListInv, Allocated, PendingInv, MainInside
<1>10. LocalsInv'
  <2>1. \A v \in Worker : wpc[v] = "unlink" => v = w
    BY <1>1 DEF ListInv, MutexInv, WorkerInside
  <2>2. QED
    BY <1>1, <1>3, <2>1 DEF ListInv, LocalsInv, MainInside, TypeOK
<1>11. QED
  BY <1>1, <1>6, <1>7, <1>8, <1>9, <1>10 DEF ListInv, TypeOK

(* A step that leaves the list's nodes and ends alone keeps the list intact. *)
LEMMA FrameStep ==
  ASSUME TypeOK, ListInv, MutexInv', LocalsInv',
         UNCHANGED <<login_head, login_tail, live, user, prev, next, contents>>,
         mpc' \notin {"first", "push"}, mpc \notin {"first", "push"}
  PROVE  ListInv'
<1>1. Ends' /\ Links' /\ NoRepeat'
  BY DEF ListInv, Ends, Links, NoRepeat
<1>2. Listed' = Listed /\ Pending = {} /\ Pending' = {}
  BY DEF Listed, Pending
<1>3. Allocated' /\ PendingInv'
  BY <1>2 DEF ListInv, Allocated, PendingInv
<1>4. QED
  BY <1>1, <1>3 DEF ListInv

(* A step of a worker outside the list leaves main inside its section. *)
LEMMA WorkerFrameStep ==
  ASSUME TypeOK, ListInv, MutexInv', LocalsInv',
         UNCHANGED <<mainVars, listVars>>
  PROVE  ListInv'
<1>1. Ends' /\ Links' /\ NoRepeat'
  BY DEF ListInv, Ends, Links, NoRepeat, listVars
<1>2. Listed' = Listed /\ Pending' = Pending
  BY DEF Listed, Pending, listVars, mainVars
<1>3. Allocated' /\ PendingInv'
  BY <1>2 DEF ListInv, Allocated, PendingInv, listVars, mainVars
<1>4. QED
  BY <1>1, <1>3 DEF ListInv

(* Every step keeps the list intact. *)
LEMMA ListInvStep == ASSUME TypeOK, ListInv, [Next]_vars PROVE ListInv'
<1>1. TypeOK' /\ MutexInv'
  BY TypeStep, MutexStep DEF ListInv
<1>2. ASSUME NEW c \in Conn, Accept(c) PROVE ListInv'
  <2>1. LocalsInv'
    BY <1>2, DistinctAssumption
       DEF ListInv, LocalsInv, Accept, Listed, workerVars, listVars
  <2>2. QED
    BY <1>1, <1>2, <2>1, FrameStep DEF Accept, listVars
<1>3. CASE ListLock \/ AddLock \/ AddUnlock \/ ListUnlock
  <2> USE <1>3 DEF ListLock, AddLock, AddUnlock, ListUnlock, MainLocks,
                   MainUnlocks
  <2>1. LocalsInv'
    BY DEF ListInv, LocalsInv, Listed, workerVars, listVars
  <2>2. QED
    BY <1>1, <2>1, FrameStep DEF listVars
<1>4. CASE AddPost
  <2>1. LocalsInv'
    BY <1>4 DEF ListInv, LocalsInv, AddPost, Listed, workerVars, listVars
  <2>2. QED
    BY <1>1, <1>4, <2>1, FrameStep DEF AddPost, listVars
<1>5. CASE AddFirst \/ AddPush
  BY <1>1, <1>5, LinkStep
<1>6. ASSUME NEW n \in Node, AddCreate(n) PROVE ListInv'
  <2> USE <1>6 DEF AddCreate
  <2>1. /\ UNCHANGED <<contents, login_head, login_tail, add>>
        /\ temp' = n /\ n \notin Listed /\ live' = live \cup {n}
        /\ user'[n] = add /\ prev'[n] = NULL /\ next'[n] = NULL
        /\ \A m \in Node \ {n} : prev'[m] = prev[m] /\ next'[m] = next[m]
    BY DEF ListInv, Allocated, TypeOK
  <2>2. \A i \in 1..Len(contents) : contents[i] \in Node \ {n}
    BY <2>1 DEF TypeOK, Listed
  <2>3. Ends' /\ NoRepeat'
    BY <2>1 DEF ListInv, Ends, NoRepeat
  <2>4. Links'
    BY <2>1, <2>2 DEF ListInv, Links
  <2>5. Pending = {} /\ Pending' = {n} /\ Listed' = Listed
    BY <2>1 DEF Pending, Listed
  <2>6. Allocated'
    BY <2>1, <2>5 DEF ListInv, Allocated
  <2>7. PendingInv'
    <3>1. login_tail = NULL /\ login_head = NULL <=> Len(contents) = 0
      BY DistinctAssumption, <2>2 DEF ListInv, Ends, TypeOK
    <3>2. QED
      BY <2>1, <2>5, <3>1 DEF PendingInv
  <2>8. LocalsInv'
    BY <2>1, <2>5 DEF ListInv, LocalsInv, workerVars
  <2>9. QED
    BY <1>1, <2>3, <2>4, <2>6, <2>7, <2>8 DEF ListInv
<1>7. CASE ListStart
  <2>1. login_head \in Listed \cup {NULL}
    BY DEF ListInv, Ends, Listed, TypeOK
  <2>2. LocalsInv'
    BY <1>7, <2>1 DEF ListInv, LocalsInv, ListStart, Listed, workerVars, listVars
  <2>3. QED
    BY <1>1, <1>7, <2>2, FrameStep DEF ListStart, listVars
<1>8. CASE ListStep
  <2>1. curr \in Listed
    BY <1>8 DEF ListInv, LocalsInv, ListStep
  <2>2. next[curr] \in Listed \cup {NULL}
    <3>1. PICK i \in 1..Len(contents) : curr = contents[i]
      BY <2>1 DEF Listed
    <3>2. next[curr] = IF i = 1 THEN NULL ELSE contents[i - 1]
      BY <3>1 DEF ListInv, Links
    <3>3. i # 1 => i - 1 \in 1..Len(contents)
      BY <3>1 DEF TypeOK
    <3>4. QED
      BY <3>2, <3>3 DEF Listed
  <2>3. LocalsInv'
    BY <1>8, <2>2 DEF ListInv, LocalsInv, ListStep, Listed, workerVars, listVars
  <2>4. QED
    BY <1>1, <1>8, <2>3, FrameStep DEF ListStep, listVars
<1>9. ASSUME NEW w \in Worker, PopWait(w) \/ PopLock(w) \/ Served(w) \/ Crashed(w)
      PROVE  ListInv'
  <2> USE <1>9 DEF PopWait, PopLock, Served, Crashed
  <2>1. UNCHANGED <<mainVars, listVars>> /\ Listed' = Listed
    BY DEF Listed, listVars
  <2>2. LocalsInv'
    BY <2>1 DEF ListInv, LocalsInv, TypeOK, mainVars, listVars
  <2>3. QED
    BY <1>1, <2>1, <2>2, WorkerFrameStep
<1>10. ASSUME NEW w \in Worker, PopRead(w) PROVE ListInv'
  <2> USE <1>10 DEF PopRead
  <2>1. UNCHANGED <<mainVars, listVars>> /\ Listed' = Listed
    BY DEF Listed, listVars
  <2>2. login_tail # NULL => Len(contents) # 0 /\ login_tail = contents[1]
    BY DEF ListInv, Ends
  <2>3. LocalsInv'
    BY <2>1, <2>2 DEF ListInv, LocalsInv, TypeOK, mainVars, listVars
  <2>4. QED
    BY <1>1, <2>1, <2>3, WorkerFrameStep
<1>11. ASSUME NEW w \in Worker, PopUnlink(w) PROVE ListInv'
  BY <1>1, <1>11, UnlinkStep
<1>12. ASSUME NEW w \in Worker, PopUnlock(w) PROVE ListInv'
  <2> USE <1>12 DEF PopUnlock
  <2>1. UNCHANGED <<mainVars, listVars>> /\ Listed' = Listed
    BY DEF Listed, listVars
  <2>2. LocalsInv'
    BY <2>1 DEF ListInv, LocalsInv, TypeOK, mainVars, listVars
  <2>3. QED
    BY <1>1, <2>1, <2>2, WorkerFrameStep
<1>13. CASE UNCHANGED vars
  <2>1. LocalsInv'
    BY <1>13 DEF vars, ListInv, LocalsInv, Listed, mainVars, workerVars, listVars
  <2>2. QED
    BY <1>1, <1>13, <2>1, WorkerFrameStep DEF vars
<1>14. QED
  BY <1>2, <1>3, <1>4, <1>5, <1>6, <1>7, <1>8, <1>9, <1>10, <1>11, <1>12, <1>13
     DEF Next, AddQueue, PrintQueue, PopQueue

-----------------------------------------------------------------------------
(* The threads that have passed sem_wait and not unlinked a node yet. *)
LEMMA PoppingFinite == IsFiniteSet(Popping) /\ IsFiniteSet(Popping')
<1>1. Popping \subseteq Worker /\ Popping' \subseteq Worker
  BY DEF Popping
<1>2. QED
  BY <1>1, WorkerAssumption, FS_Subset

(* A thread that has passed sem_wait finds a node, when the counts match. *)
LEMMA ClaimedNode ==
  ASSUME TypeOK, ListInv, CountMatches, NEW w \in Popping
  PROVE  login_tail # NULL
<1>1. Cardinality(Popping) \in Nat /\ Cardinality(Popping) # 0
  BY PoppingFinite, FS_CardinalityType, FS_EmptySet
<1>2. Len(contents) # 0
  BY <1>1 DEF CountMatches, TypeOK, Unposted
<1>3. contents[1] \in Node
  BY <1>2 DEF TypeOK
<1>4. QED
  BY <1>2, <1>3, DistinctAssumption DEF ListInv, Ends

(* Every step keeps the semaphore and the list in agreement. *)
LEMMA CountStep ==
  ASSUME TypeOK, ListInv, CountMatches, [Next]_vars PROVE CountMatches'
<1> DEFINE card == Cardinality(Popping)
<1>1. /\ TypeOK' /\ ListInv'
      /\ card \in Nat /\ Cardinality(Popping') \in Nat
  BY TypeStep, ListInvStep, PoppingFinite, FS_CardinalityType
<1>2. ASSUME UNCHANGED <<queueItems, contents>>, Popping' = Popping,
             Unposted' = Unposted
      PROVE  CountMatches'
  BY <1>2 DEF CountMatches
<1>3. ASSUME NEW c \in Conn, Accept(c) PROVE CountMatches'
  BY <1>2, <1>3 DEF Accept, Popping, Unposted, workerVars, listVars
<1>4. CASE ListLock \/ AddLock \/ AddUnlock \/ ListUnlock
  BY <1>2, <1>4 DEF ListLock, AddLock, AddUnlock, ListUnlock, MainLocks,
     MainUnlocks, Popping, Unposted, workerVars, listVars
<1>5. CASE ListStart \/ ListStep
  BY <1>2, <1>5 DEF ListStart, ListStep, Popping, Unposted, workerVars, listVars
<1>6. ASSUME NEW n \in Node, AddCreate(n) PROVE CountMatches'
  BY <1>2, <1>6 DEF AddCreate, Popping, Unposted, workerVars
<1>7. CASE AddFirst \/ AddPush
  <2>1. contents' = Append(contents, temp) /\ temp \in Node
    BY <1>7 DEF AddFirst, AddPush, ListInv, PendingInv
  <2>2. Len(contents') = Len(contents) + 1
    BY <2>1, AppendPositions DEF TypeOK
  <2>3. Popping' = Popping /\ queueItems' = queueItems
    BY <1>7 DEF AddFirst, AddPush, Popping, workerVars
  <2>4. Unposted = 0 /\ Unposted' = 1
    BY <1>7 DEF AddFirst, AddPush, Unposted
  <2>5. QED
    BY <1>1, <2>2, <2>3, <2>4 DEF CountMatches, TypeOK
<1>8. CASE AddPost
  <2>1. Popping' = Popping /\ contents' = contents
    BY <1>8 DEF AddPost, Popping, workerVars, listVars
  <2>2. Unposted = 1 /\ Unposted' = 0 /\ queueItems' = queueItems + 1
    BY <1>8 DEF AddPost, Unposted
  <2>3. QED
    BY <1>1, <2>1, <2>2 DEF CountMatches, TypeOK
<1>9. ASSUME NEW w \in Worker, PopWait(w) PROVE CountMatches'
  <2>1. /\ contents' = contents /\ Unposted' = Unposted
        /\ queueItems' = queueItems - 1
    BY <1>9 DEF PopWait, Unposted, mainVars, listVars
  <2>2. w \notin Popping /\ Popping' = Popping \cup {w}
    BY <1>9 DEF PopWait, Popping, TypeOK
  <2>3. Cardinality(Popping') = card + 1
    BY <2>2, PoppingFinite, FS_AddElement
  <2>4. QED
    BY <1>1, <2>1, <2>3 DEF CountMatches, TypeOK, Unposted
<1>10. ASSUME NEW w \in Worker, PopLock(w) PROVE CountMatches'
  <2>1. Popping' = Popping
    BY <1>10 DEF PopLock, Popping, TypeOK
  <2>2. QED
    BY <1>2, <1>10, <2>1 DEF PopLock, Unposted, mainVars, listVars
<1>11. ASSUME NEW w \in Worker, PopRead(w) PROVE CountMatches'
  <2>1. login_tail # NULL
    BY <1>11, ClaimedNode DEF PopRead, Popping
  <2>2. Popping' = Popping
    BY <1>11, <2>1 DEF PopRead, Popping, TypeOK
  <2>3. QED
    BY <1>2, <1>11, <2>2 DEF PopRead, Unposted, mainVars, listVars
<1>12. ASSUME NEW w \in Worker, PopUnlink(w) PROVE CountMatches'
  <2>1. Len(contents) # 0
    BY <1>12 DEF PopUnlink, ListInv, LocalsInv
  <2>2. contents' = Tail(contents) /\ queueItems' = queueItems
        /\ Unposted' = Unposted
    BY <1>12 DEF PopUnlink, Unposted, mainVars
  <2>3. Len(contents') = Len(contents) - 1
    BY <2>1, <2>2, TailPositions DEF TypeOK
  <2>4. w \in Popping /\ Popping' = Popping \ {w}
    BY <1>12 DEF PopUnlink, Popping, TypeOK
  <2>5. Cardinality(Popping') = card - 1
    BY <2>4, PoppingFinite, FS_RemoveElement
  <2>6. QED
    BY <1>1, <2>2, <2>3, <2>5 DEF CountMatches, TypeOK, Unposted
<1>13. ASSUME NEW w \in Worker, PopUnlock(w) \/ Served(w) \/ Crashed(w)
       PROVE  CountMatches'
  <2>1. Popping' = Popping
    BY <1>13 DEF PopUnlock, Served, Crashed, Popping, TypeOK
  <2>2. QED
    BY <1>2, <1>13, <2>1
       DEF PopUnlock, Served, Crashed, Unposted, mainVars, listVars
<1>14. CASE UNCHANGED vars
  BY <1>2, <1>14 DEF vars, Popping, Unposted, mainVars, workerVars, listVars
<1>15. QED
  BY <1>3, <1>4, <1>5, <1>6, <1>7, <1>8, <1>9, <1>10, <1>11, <1>12, <1>13, <1>14
     DEF Next, AddQueue, PrintQueue, PopQueue

-----------------------------------------------------------------------------
(* The inductive invariant: types, an intact list, matching counts. *)
THEOREM Invariance == Spec => []IInv
<1>1. Init => IInv
  <2> SUFFICES ASSUME Init PROVE IInv
    OBVIOUS
  <2>1. TypeOK
    BY DEF Init, TypeOK, MainPC, WorkerPC
  <2>2. Len(contents) = 0 /\ Listed = {}
    BY DEF Init, Listed
  <2>3. MutexInv
    BY DistinctAssumption DEF Init, MutexInv, MainInside, WorkerInside
  <2>4. Ends /\ Links /\ NoRepeat /\ Allocated /\ PendingInv /\ LocalsInv
    BY <2>2 DEF Init, Ends, Links, NoRepeat, Allocated, Pending, PendingInv,
                LocalsInv
  <2>5. CountMatches
    <3>1. Popping = {} /\ Unposted = 0 /\ queueItems = 0
      BY DEF Init, Popping, Unposted
    <3>2. QED
      BY <2>2, <3>1, FS_EmptySet DEF CountMatches
  <2>6. QED
    BY <2>1, <2>3, <2>4, <2>5 DEF IInv, ListInv
<1>2. IInv /\ [Next]_vars => IInv'
  BY TypeStep, ListInvStep, CountStep DEF IInv
<1>3. QED
  BY <1>1, <1>2, PTL DEF Spec

(* Every variable keeps its type: the ends and the links of the list are     *)
(* node addresses or NULL, and the semaphore never goes below zero.          *)
THEOREM TypeCorrect == Spec => []TypeOK
BY Invariance, PTL DEF IInv

(* No thread finds the doubly linked list half-linked: whenever the mutex is *)
(* free, ends, links and allocated nodes all describe the same sequence.     *)
THEOREM ListAlwaysIntact == Spec => []ListIntact
<1>1. IInv => ListIntact
  <2> SUFFICES ASSUME IInv, mutex = Nobody PROVE ListIntact
    BY DEF ListIntact
  <2>1. Pending = {}
    BY DistinctAssumption DEF IInv, ListInv, MutexInv, MainInside, Pending
  <2>2. QED
    BY <2>1 DEF IInv, ListInv, Ends, Links, Allocated, Listed, ListIntact
<1>2. QED
  BY <1>1, Invariance, PTL

(* No thread follows a pointer to a node that another thread has freed.      *)
THEOREM NoFreedNodeUsed == Spec => []NoUseAfterFree
<1>1. IInv => NoUseAfterFree
  <2> SUFFICES ASSUME IInv PROVE NoUseAfterFree
    OBVIOUS
  <2> USE DEF IInv, ListInv, Allocated
  <2>1. Listed \subseteq live
    OBVIOUS
  <2>2. ASSUME Len(contents) # 0
        PROVE  contents[1] \in Listed /\ contents[Len(contents)] \in Listed
    BY <2>2 DEF Listed, TypeOK
  <2>3. ASSUME NEW w \in Worker, wpc[w] = "unlink" PROVE holder[w] \in live
    BY <2>1, <2>2, <2>3 DEF LocalsInv
  <2>4. mpc = "push" => login_head \in live
    BY <2>1, <2>2 DEF PendingInv, Ends
  <2>5. mpc = "listing" /\ curr # NULL => curr \in live
    BY <2>1 DEF LocalsInv
  <2>6. QED
    BY <2>3, <2>4, <2>5 DEF NoUseAfterFree
<1>2. QED
  BY <1>1, Invariance, PTL

(* The semaphore counts the list's nodes, up to the threads between sem_wait *)
(* and their pop and main between its link and sem_post.                     *)
THEOREM CountAlwaysMatches == Spec => []CountMatches
BY Invariance, PTL DEF IInv

(* popLoginQueue never returns NULL: a thread past sem_wait finds a node.    *)
THEOREM PopAlwaysFindsNode == Spec => []PopFindsNode
<1>1. IInv => PopFindsNode
  <2> SUFFICES ASSUME IInv, NEW w \in Worker, wpc[w] = "read"
               PROVE  login_tail # NULL
    BY DEF PopFindsNode
  <2>1. w \in Popping
    BY DEF Popping
  <2>2. QED
    BY <2>1, ClaimedNode DEF IInv
<1>2. QED
  BY <1>1, Invariance, PTL

-----------------------------------------------------------------------------
(* What OneOwner needs to be inductive: listed nodes hold connections, and   *)
(* the connection main is about to queue is nowhere else.                    *)
OwnerInv ==
  /\ OneOwner
  /\ \A i \in 1..Len(contents) : user[contents[i]] \in Conn
  /\ mpc \in {"add", "create", "first", "push"} =>
       /\ \A i \in 1..Len(contents) : user[contents[i]] # add
       /\ \A w \in Worker : tbRet[w] # add

(* Every step leaves each connection with one owner. *)
LEMMA OwnerStep ==
  ASSUME TypeOK, ListInv, OwnerInv, [Next]_vars PROVE OwnerInv'
<1>1. TypeOK' /\ ListInv'
  BY TypeStep, ListInvStep
<1>2. ASSUME UNCHANGED <<tbRet, user, contents>>,
             mpc' \in {"add", "create", "first", "push"} =>
               add' = add /\ mpc \in {"add", "create", "first", "push"}
      PROVE  OwnerInv'
  BY <1>2 DEF OwnerInv, OneOwner
<1>3. ASSUME NEW c \in Conn, Accept(c) PROVE OwnerInv'
  <2>1. UNCHANGED <<tbRet, user, contents>> /\ add' = c
    BY <1>3 DEF Accept, workerVars, listVars
  <2>2. \A i \in 1..Len(contents) : user[contents[i]] # c
    BY <1>3 DEF Accept, Queued, TypeOK
  <2>3. \A w \in Worker : tbRet[w] # c
    BY <1>3, DistinctAssumption DEF Accept, InService, ListInv, LocalsInv
  <2>4. QED
    BY <2>1, <2>2, <2>3 DEF OwnerInv, OneOwner
<1>4. CASE ListLock \/ AddLock \/ AddUnlock \/ ListUnlock
  BY <1>2, <1>4 DEF ListLock, AddLock, AddUnlock, ListUnlock, MainLocks,
     MainUnlocks, workerVars, listVars
<1>5. CASE ListStart \/ ListStep \/ AddPost
  BY <1>2, <1>5 DEF ListStart, ListStep, AddPost, workerVars, listVars
<1>6. ASSUME NEW n \in Node, AddCreate(n) PROVE OwnerInv'
  <2>1. /\ UNCHANGED <<tbRet, contents, add>>
        /\ n \notin Listed /\ mpc = "create"
        /\ \A m \in Node \ {n} : user'[m] = user[m]
    BY <1>6 DEF AddCreate, ListInv, Allocated, TypeOK, workerVars
  <2>2. \A i \in 1..Len(contents) : user'[contents[i]] = user[contents[i]]
    BY <2>1 DEF TypeOK, Listed
  <2>3. QED
    BY <2>1, <2>2 DEF OwnerInv, OneOwner
<1>7. CASE AddFirst \/ AddPush
  <2>1. /\ temp \in Node /\ user[temp] = add /\ add # NULL /\ add \in Conn
        /\ mpc' = "unlockAdd" /\ contents' = Append(contents, temp)
        /\ UNCHANGED <<tbRet, user>>
    BY <1>7 DEF AddFirst, AddPush, ListInv, PendingInv, LocalsInv, TypeOK,
                workerVars
  <2>2. /\ Len(contents) \in Nat /\ Len(contents') = Len(contents) + 1
        /\ contents'[Len(contents) + 1] = temp
        /\ \A i \in 1..Len(contents) : contents'[i] = contents[i]
    BY <2>1, AppendPositions DEF TypeOK
  <2>3. /\ \A i \in 1..Len(contents) : user[contents[i]] # add
        /\ \A w \in Worker : tbRet[w] # add
    BY <1>7 DEF OwnerInv, AddFirst, AddPush
  <2>4. \A i \in 1..Len(contents') :
          user'[contents'[i]] =
            IF i = Len(contents) + 1 THEN add ELSE user[contents[i]]
    BY <2>1, <2>2
  <2>5. QED
    BY <2>1, <2>2, <2>3, <2>4 DEF OwnerInv, OneOwner
<1>8. ASSUME NEW w \in Worker,
             PopWait(w) \/ PopLock(w) \/ PopRead(w) \/ PopUnlock(w)
      PROVE  OwnerInv'
  BY <1>2, <1>8 DEF PopWait, PopLock, PopRead, PopUnlock, mainVars, listVars
<1>9. ASSUME NEW w \in Worker, PopUnlink(w) PROVE OwnerInv'
  <2>1. /\ Len(contents) # 0 /\ contents' = Tail(contents)
        /\ tbRet' = [tbRet EXCEPT ![w] = user[contents[1]]]
        /\ UNCHANGED <<mpc, add, user>>
    BY <1>9 DEF PopUnlink, ListInv, LocalsInv, mainVars
  <2>2. /\ Len(contents) \in Nat /\ Len(contents') = Len(contents) - 1
        /\ \A i \in 1..(Len(contents) - 1) : contents'[i] = contents[i + 1]
    BY <2>1, TailPositions DEF TypeOK
  <2>3. \A i \in 1..Len(contents') :
          /\ i + 1 \in 1..Len(contents) /\ i + 1 # 1
          /\ user'[contents'[i]] = user[contents[i + 1]]
    BY <2>1, <2>2
  <2>4. 1 \in 1..Len(contents)
    BY <2>1, <2>2
  <2>5. /\ tbRet'[w] = user[contents[1]]
        /\ \A v \in Worker \ {w} : tbRet'[v] = tbRet[v]
    BY <2>1 DEF TypeOK
  <2>6. OneOwner'
    <3>1. \A i, j \in 1..Len(contents') :
            user'[contents'[i]] = user'[contents'[j]] => i = j
      <4> SUFFICES ASSUME NEW i \in 1..Len(contents'), NEW j \in 1..Len(contents'),
                          user'[contents'[i]] = user'[contents'[j]]
                   PROVE  i = j
        OBVIOUS
      <4>1. i + 1 = j + 1
        BY <2>3 DEF OwnerInv, OneOwner
      <4>2. QED
        BY <4>1, <2>2
    <3>2. \A u, v \in Worker : tbRet'[u] = tbRet'[v] /\ tbRet'[u] # NULL => u = v
      BY <2>4, <2>5 DEF OwnerInv, OneOwner
    <3>3. \A v \in Worker, i \in 1..Len(contents') : tbRet'[v] # user'[contents'[i]]
      BY <2>3, <2>4, <2>5 DEF OwnerInv, OneOwner
    <3>4. QED
      BY <3>1, <3>2, <3>3 DEF OneOwner
  <2>7. QED
    BY <2>1, <2>3, <2>4, <2>5, <2>6 DEF OwnerInv
<1>10. ASSUME NEW w \in Worker, Served(w) \/ Crashed(w) PROVE OwnerInv'
  <2>1. /\ UNCHANGED <<mpc, add, user, contents>>
        /\ tbRet'[w] = NULL /\ \A v \in Worker \ {w} : tbRet'[v] = tbRet[v]
    BY <1>10 DEF Served, Crashed, TypeOK, mainVars, listVars
  <2>2. mpc \in {"add", "create", "first", "push"} => add # NULL
    BY DEF ListInv, LocalsInv
  <2>3. QED
    BY <2>1, <2>2, DistinctAssumption DEF OwnerInv, OneOwner
<1>11. CASE UNCHANGED vars
  BY <1>2, <1>11 DEF vars, mainVars, workerVars, listVars
<1>12. QED
  BY <1>3, <1>4, <1>5, <1>6, <1>7, <1>8, <1>9, <1>10, <1>11
     DEF Next, AddQueue, PrintQueue, PopQueue

(* A connection is in one place: in one node of the queue, or with the one   *)
(* thread that logs it in.                                                   *)
THEOREM OneOwnerAlways == Spec => []OneOwner
<1>1. Init => OwnerInv
  BY DEF Init, OwnerInv, OneOwner
<1>2. IInv /\ OwnerInv /\ [Next]_vars => OwnerInv'
  BY OwnerStep DEF IInv
<1>3. OwnerInv => OneOwner
  BY DEF OwnerInv
<1>4. QED
  BY <1>1, <1>2, <1>3, Invariance, PTL DEF Spec

-----------------------------------------------------------------------------
(* The abstract queue: the connections in the nodes, oldest first. *)
Waiting == [i \in 1..Len(contents) |-> user[contents[i]]]

(* Every step is one of the service's, or invisible to it. *)
LEMMA RefinementStep ==
  ASSUME TypeOK, ListInv, OwnerInv, [Next]_vars
  PROVE  [Service!Next]_(Service!vars)
<1> USE DEF Service!vars
<1>1. Waiting \in Seq(Conn) /\ Len(Waiting) = Len(contents)
  BY DEF OwnerInv, Waiting, TypeOK
<1>2. ASSUME UNCHANGED <<contents, tbRet>>,
             \A i \in 1..Len(contents) : user'[contents[i]] = user[contents[i]]
      PROVE  UNCHANGED Service!vars
  BY <1>2
<1>3. ASSUME AddFirst \/ AddPush PROVE Service!Next
  <2>1. /\ temp \in Node /\ user[temp] = add /\ add # NULL /\ add \in Conn
        /\ contents' = Append(contents, temp)
        /\ UNCHANGED <<tbRet, user>>
    BY <1>3 DEF AddFirst, AddPush, ListInv, PendingInv, LocalsInv, TypeOK,
                workerVars
  <2>2. /\ Len(contents) \in Nat /\ Len(contents') = Len(contents) + 1
        /\ contents'[Len(contents) + 1] = temp
        /\ \A i \in 1..Len(contents) : contents'[i] = contents[i]
    BY <2>1, AppendPositions DEF TypeOK
  <2>3. /\ Len(Append(Waiting, add)) = Len(contents')
        /\ Append(Waiting, add) \in Seq(Conn)
        /\ \A i \in 1..Len(contents') :
             Append(Waiting, add)[i] = user'[contents'[i]]
    BY <1>1, <2>1, <2>2, AppendPositions DEF Waiting
  <2>4. Waiting' = Append(Waiting, add)
    BY <2>2, <2>3 DEF Waiting
  <2>5. PICK c \in Conn : c = add
    BY <2>1
  <2>6. Service!Arrive(c)
    BY <2>1, <2>4, <2>5 DEF Service!Arrive, Waiting
  <2>7. QED
    BY <2>6 DEF Service!Next
<1>4. ASSUME NEW w \in Worker, PopUnlink(w) PROVE Service!Next
  <2>1. /\ Len(contents) # 0 /\ contents' = Tail(contents)
        /\ tbRet' = [tbRet EXCEPT ![w] = user[contents[1]]]
        /\ tbRet[w] = NULL /\ user' = user
    BY <1>4 DEF PopUnlink, ListInv, LocalsInv
  <2>2. /\ Len(contents) \in Nat /\ Len(contents') = Len(contents) - 1
        /\ \A i \in 1..(Len(contents) - 1) : contents'[i] = contents[i + 1]
    BY <2>1, TailPositions DEF TypeOK
  <2>3. /\ Waiting # <<>> /\ Head(Waiting) = user[contents[1]]
        /\ Tail(Waiting) \in Seq(Conn) /\ Len(Tail(Waiting)) = Len(contents')
        /\ \A i \in 1..Len(contents') : Tail(Waiting)[i] = user'[contents'[i]]
    <3>1. Len(Waiting) # 0 /\ Waiting[1] = user[contents[1]]
      BY <1>1, <2>1, <2>2 DEF Waiting
    <3>2. /\ Tail(Waiting) \in Seq(Conn) /\ Len(Tail(Waiting)) = Len(contents')
          /\ \A i \in 1..Len(contents') : Tail(Waiting)[i] = Waiting[i + 1]
      BY <1>1, <2>2, <3>1, TailPositions
    <3>3. \A i \in 1..Len(contents') : Waiting[i + 1] = user'[contents'[i]]
      BY <2>1, <2>2 DEF Waiting
    <3>4. QED
      BY <1>1, <3>1, <3>2, <3>3
  <2>4. Waiting' = Tail(Waiting)
    <3>1. Tail(Waiting) = [i \in 1..Len(contents') |-> Tail(Waiting)[i]]
      BY <2>3, SequenceIsFunction
    <3>2. Waiting' = [i \in 1..Len(contents') |-> user'[contents'[i]]]
      BY DEF Waiting
    <3>3. QED
      BY <2>3, <3>1, <3>2
  <2>5. Service!Take(w)
    BY <2>1, <2>3, <2>4 DEF Service!Take, Waiting
  <2>6. QED
    BY <2>5 DEF Service!Next
<1>5. ASSUME NEW w \in Worker, Served(w) \/ Crashed(w) PROVE Service!Next
  <2>1. tbRet[w] # NULL
    BY <1>5 DEF Served, Crashed, ListInv, LocalsInv
  <2>2. Service!Finish(w)
    BY <1>5, <2>1 DEF Served, Crashed, Service!Finish, listVars
  <2>3. QED
    BY <2>2 DEF Service!Next
<1>6. ASSUME NEW n \in Node, AddCreate(n) PROVE UNCHANGED Service!vars
  <2>1. /\ UNCHANGED <<contents, tbRet>> /\ n \notin Listed
        /\ \A m \in Node \ {n} : user'[m] = user[m]
    BY <1>6 DEF AddCreate, ListInv, Allocated, TypeOK, workerVars
  <2>2. QED
    BY <1>2, <2>1 DEF Listed, TypeOK
<1>7. ASSUME UNCHANGED <<contents, tbRet, user>> PROVE UNCHANGED Service!vars
  BY <1>2, <1>7
<1>8. ASSUME NEW c \in Conn, Accept(c) PROVE UNCHANGED Service!vars
  BY <1>7, <1>8 DEF Accept, workerVars, listVars
<1>9. CASE ListLock \/ AddLock \/ AddUnlock \/ ListUnlock \/ AddPost \/ ListStart
           \/ ListStep
  BY <1>7, <1>9 DEF ListLock, AddLock, AddUnlock, ListUnlock, AddPost, ListStart,
     ListStep, MainLocks, MainUnlocks, workerVars, listVars
<1>10. ASSUME NEW w \in Worker,
              PopWait(w) \/ PopLock(w) \/ PopRead(w) \/ PopUnlock(w)
       PROVE  UNCHANGED Service!vars
  BY <1>7, <1>10 DEF PopWait, PopLock, PopRead, PopUnlock, listVars
<1>11. CASE UNCHANGED vars
  BY <1>7, <1>11 DEF vars, workerVars, listVars
<1>12. QED
  BY <1>3, <1>4, <1>5, <1>6, <1>8, <1>9, <1>10, <1>11
     DEF Next, AddQueue, PrintQueue, PopQueue

(* The pointers, the mutex and the semaphore implement the first-come        *)
(* first-served service: nothing queued is lost, repeated or overtaken.      *)
THEOREM QueueImplementsService == Spec => ImplementsService
<1>1. Init => Service!Init
  BY DEF Init, Service!Init
<1>2. IInv /\ OwnerInv /\ [Next]_vars => [Service!Next]_(Service!vars)
  BY RefinementStep DEF IInv
<1>3. Init => OwnerInv
  BY DEF Init, OwnerInv, OneOwner
<1>4. IInv /\ OwnerInv /\ [Next]_vars => OwnerInv'
  BY OwnerStep DEF IInv
<1>5. QED
  BY <1>1, <1>2, <1>3, <1>4, Invariance, PTL
     DEF Spec, ImplementsService, Service!Spec
=============================================================================
