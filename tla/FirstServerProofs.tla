------------------------- MODULE FirstServerProofs -------------------------
(***************************************************************************)
(* Theorems of FirstServer, for any names, passwords, descriptors, records *)
(* and threads.                                                            *)
(*                                                                         *)
(* Types: a connection whose login is not over has a record of its own,    *)
(* and nobody else gives that record a name (LoginInv).                    *)
(*                                                                         *)
(* Service: as long as there has been no clash, each thread depends on a   *)
(* few records (Own) that no other thread depends on (OwnApart), because   *)
(* threads have descriptors of their own (ApartQuiet) and a descriptor or  *)
(* a name leads to one record (ListQuiet).  So a step of one thread leaves *)
(* alone what the others rely on (Frame), whatever nameless records and    *)
(* open sockets vanished clients have left behind.  And at most one of     *)
(* them is at the database, so nobody closes the handle another one uses   *)
(* (HandleQuiet) and every insert that finds no row of its name succeeds.  *)
(***************************************************************************)
EXTENDS FirstServer, WellFoundedInduction, TLAPS

Th == [pc : PC, fd : Fd \cup {NoFd}, cur : Rec \cup {NoRec},
       nm : Name \cup {NoName}, found : Rec \cup {NoRec}]
Row == [name : Name, password : Valid]

Us == ToSet(users)

(* Whatever happens: a stopped server has no threads, and a connection whose *)
(* login is not over has a record of its own, which only it gives a name.    *)
LoginInv ==
  /\ ~up => users = <<>> /\ open = {} /\ \A t \in Thread : th[t] = Idle
  /\ \A t \in Thread : InLogin(t) => th[t].cur \in Rec
  /\ \A t \in Thread : th[t].pc = "pass" => th[t].found \in Rec
  /\ \A t \in Thread : th[t].pc = "newpass" => th[t].nm \in Name
  /\ \A t \in Thread : th[t].pc \in {"save", "insert"} =>
       rec[th[t].cur].name \in Name /\ rec[th[t].cur].password \in Valid
  /\ \A t, u \in Thread : InLogin(t) /\ InLogin(u) /\ th[t].cur = th[u].cur => t = u

ListTyped == users \in Seq(Rec) /\ IsInjective(users)
DbTyped ==
  db \in Seq(Row) /\ \A i, j \in DOMAIN db : db[i].name = db[j].name => i = j
BasicTyped ==
  /\ up \in BOOLEAN /\ open \subseteq Fd /\ clash \in BOOLEAN
  /\ database \in {"open", "closed"}
RecTyped == rec \in [Rec -> Record]
ThTyped == th \in [Thread -> Th]

TypeInv == BasicTyped /\ ListTyped /\ RecTyped /\ DbTyped /\ ThTyped /\ LoginInv

LEMMA TypeParts ==
  TypeOK <=> BasicTyped /\ ListTyped /\ RecTyped /\ DbTyped /\ ThTyped
BY DEF TypeOK, BasicTyped, ListTyped, RecTyped, DbTyped, ThTyped, Row, Th

-----------------------------------------------------------------------------
(* The list. *)
Less == {pair \in Nat \X Nat : pair[1] < pair[2]}

LEMMA LeastPosition ==
  ASSUME NEW S, S \subseteq Nat, S # {}
  PROVE  Min(S) \in S
<1>1. Less = OpToRel(<, Nat)
  BY DEF OpToRel, Less
<1>2. IsWellFoundedOn(Less, Nat)
  BY <1>1, NatLessThanWellFounded
<1>3. PICK x \in S : \A y \in S : ~ (<<y, x>> \in Less)
  BY <1>2, WFMin
<1>4. \A y \in S : /\ <<y, x>> \in Nat \X Nat /\ <<y, x>>[1] = y /\ <<y, x>>[2] = x
                   /\ y \in Int /\ x \in Int
  OBVIOUS
<1>5. \A y \in S : ~(y < x)
  BY <1>3, <1>4 DEF Less
<1>6. \E m \in S : \A y \in S : m <= y
  BY <1>4, <1>5
<1> QED
  BY <1>6, Zenon DEF Min

LEMMA FirstFound ==
  ASSUME NEW s \in Seq(Rec), NEW hits \in SUBSET DOMAIN s
  PROVE  /\ hits = {} => FirstOf(s, hits) = NoRec
         /\ hits # {} => \E i \in hits : FirstOf(s, hits) = s[i] /\ FirstOf(s, hits) \in Rec
<1>1. DOMAIN s \subseteq Nat /\ \A i \in DOMAIN s : s[i] \in Rec
  OBVIOUS
<1>2. hits # {} => Min(hits) \in hits
  BY <1>1, LeastPosition
<1> QED
  BY <1>1, <1>2 DEF FirstOf

LEMMA UserFound ==
  ASSUME ListTyped, NEW n
  PROVE  \/ GetUser(n) = NoRec /\ \A r \in Us : rec[r].name # n
         \/ GetUser(n) \in Us /\ GetUser(n) \in Rec /\ rec[GetUser(n)].name = n
<1> DEFINE hits == {i \in DOMAIN users : rec[users[i]].name = n}
<1>1. /\ hits = {} => FirstOf(users, hits) = NoRec
      /\ hits # {} =>
           \E i \in hits : FirstOf(users, hits) = users[i] /\ FirstOf(users, hits) \in Rec
  BY FirstFound DEF ListTyped
<1> QED
  BY <1>1 DEF GetUser, Us, ToSet

LEMMA FdFound ==
  ASSUME ListTyped, NEW f
  PROVE  \/ GetUserByFD(f) = NoRec /\ \A r \in Us : rec[r].fd # f
         \/ GetUserByFD(f) \in Us /\ GetUserByFD(f) \in Rec /\ rec[GetUserByFD(f)].fd = f
<1> DEFINE hits == {i \in DOMAIN users : rec[users[i]].fd = f}
<1>1. /\ hits = {} => FirstOf(users, hits) = NoRec
      /\ hits # {} =>
           \E i \in hits : FirstOf(users, hits) = users[i] /\ FirstOf(users, hits) \in Rec
  BY FirstFound DEF ListTyped
<1> QED
  BY <1>1 DEF GetUserByFD, Us, ToSet

LEMMA AtRemoved ==
  ASSUME NEW s \in Seq(Rec), IsInjective(s), NEW k \in DOMAIN s
  PROVE  /\ RemoveAt(s, k) \in Seq(Rec) /\ IsInjective(RemoveAt(s, k))
         /\ ToSet(RemoveAt(s, k)) = ToSet(s) \ {s[k]}
<1> DEFINE w == RemoveAt(s, k)
<1> DEFINE old(i) == IF i < k THEN i ELSE i + 1
<1>1. k \in Nat /\ k >= 1 /\ k <= Len(s) /\ Len(s) \in Nat
  OBVIOUS
<1>2. /\ SubSeq(s, 1, k - 1) \in Seq(Rec) /\ Len(SubSeq(s, 1, k - 1)) = k - 1
      /\ \A i \in 1 .. k - 1 : SubSeq(s, 1, k - 1)[i] = s[i]
  BY <1>1
<1>3. /\ SubSeq(s, k + 1, Len(s)) \in Seq(Rec) /\ Len(SubSeq(s, k + 1, Len(s))) = Len(s) - k
      /\ \A i \in 1 .. Len(s) - k : SubSeq(s, k + 1, Len(s))[i] = s[i + k]
  BY <1>1
<1>4. /\ w \in Seq(Rec) /\ Len(w) = Len(s) - 1
      /\ \A i \in 1 .. Len(w) : w[i] = s[old(i)]
  <2> DEFINE a == SubSeq(s, 1, k - 1)
             b == SubSeq(s, k + 1, Len(s))
  <2>1. w = a \o b
    BY DEF RemoveAt
  <2>2. /\ a \in Seq(Rec) /\ b \in Seq(Rec) /\ Len(a) = k - 1 /\ Len(b) = Len(s) - k
        /\ \A i \in 1 .. k - 1 : a[i] = s[i]
        /\ \A i \in 1 .. Len(s) - k : b[i] = s[i + k]
    BY <1>2, <1>3
  <2> HIDE DEF a, b, w, Rec
  <2>3. /\ w \in Seq(Rec) /\ Len(w) = Len(s) - 1
        /\ \A i \in 1 .. Len(w) : w[i] = IF i <= k - 1 THEN a[i] ELSE b[i - (k - 1)]
    BY <1>1, <2>1, <2>2
  <2>4. ASSUME NEW i \in 1 .. Len(w) PROVE w[i] = s[old(i)]
    <3>1. CASE i < k
      BY <1>1, <2>2, <2>3, <3>1
    <3>2. CASE ~(i < k)
      <4>1. i - (k - 1) \in 1 .. Len(s) - k /\ (i - (k - 1)) + k = i + 1 /\ ~(i <= k - 1)
        BY <1>1, <2>3, <3>2
      <4> QED
        BY <2>2, <2>3, <3>2, <4>1
    <3> QED
      BY <3>1, <3>2
  <2> QED
    BY <2>3, <2>4
<1> HIDE DEF w
<1>5. \A i \in DOMAIN w : old(i) \in DOMAIN s /\ old(i) # k /\ w[i] = s[old(i)]
  BY <1>1, <1>4
<1>6. \A j \in DOMAIN s : j # k => \E i \in DOMAIN w : old(i) = j
  <2> SUFFICES ASSUME NEW j \in DOMAIN s, j # k PROVE \E i \in DOMAIN w : old(i) = j
    OBVIOUS
  <2>1. j \in 1 .. Len(s)
    OBVIOUS
  <2> DEFINE i == IF j < k THEN j ELSE j - 1
  <2>2. i \in 1 .. Len(w) /\ old(i) = j
    BY <1>1, <1>4, <2>1
  <2> QED
    BY <1>4, <2>2
<1>7. \A i, j \in DOMAIN w : old(i) = old(j) => i = j
  BY <1>1, <1>4
<1> HIDE DEF old
<1>8. IsInjective(w)
  BY <1>5, <1>7 DEF IsInjective
<1>9. ToSet(w) = ToSet(s) \ {s[k]}
  BY <1>5, <1>6 DEF ToSet, IsInjective
<1> QED
  BY <1>4, <1>8, <1>9 DEF w

LEMMA FdRemoved ==
  ASSUME NEW s \in Seq(Rec), IsInjective(s), NEW f
  PROVE  /\ RemoveByFD(s, f) \in Seq(Rec) /\ IsInjective(RemoveByFD(s, f))
         /\ \/ /\ RemoveByFD(s, f) = s
               /\ \A r \in ToSet(s) : rec[r].fd # f
            \/ \E r \in ToSet(s) :
                 /\ rec[r].fd = f
                 /\ ToSet(RemoveByFD(s, f)) = ToSet(s) \ {r}
<1> DEFINE hits == {i \in DOMAIN s : rec[s[i]].fd = f}
<1>1. CASE hits = {}
  BY <1>1 DEF RemoveByFD, ToSet
<1>2. CASE hits # {}
  <2>0. hits \subseteq Nat
    OBVIOUS
  <2>1. Min(hits) \in hits
    BY <1>2, <2>0, LeastPosition
  <2>2. RemoveByFD(s, f) = RemoveAt(s, Min(hits))
    BY <1>2 DEF RemoveByFD
  <2>3. s[Min(hits)] \in ToSet(s) /\ rec[s[Min(hits)]].fd = f
    BY <2>1 DEF ToSet
  <2> HIDE DEF hits
  <2>4. Min(hits) \in DOMAIN s
    BY <2>1 DEF hits
  <2> QED
    BY <2>2, <2>3, <2>4, AtRemoved
<1> QED
  BY <1>1, <1>2

LEMMA NewFirst ==
  ASSUME FreeRec # {}
  PROVE  Min(FreeRec) \in FreeRec /\ Min(FreeRec) \in Rec
<1>1. FreeRec \in SUBSET Nat /\ FreeRec \subseteq Rec
  BY FirstServerAssumption DEF FreeRec, Rec
<1> QED
  BY <1>1, LeastPosition

LEMMA OneMore ==
  ASSUME NEW s \in Seq(Rec), IsInjective(s), NEW r \in Rec \ ToSet(s)
  PROVE  /\ Append(s, r) \in Seq(Rec) /\ IsInjective(Append(s, r))
         /\ ToSet(Append(s, r)) = ToSet(s) \cup {r}
<1>1. /\ Append(s, r) \in Seq(Rec) /\ DOMAIN Append(s, r) = DOMAIN s \cup {Len(s) + 1}
      /\ Len(s) + 1 \notin DOMAIN s
      /\ Append(s, r)[Len(s) + 1] = r
      /\ \A i \in DOMAIN s : Append(s, r)[i] = s[i]
  OBVIOUS
<1>2. \A i \in DOMAIN s : s[i] # r
  BY DEF ToSet
<1> QED
  BY <1>1, <1>2 DEF IsInjective, ToSet

-----------------------------------------------------------------------------
(* Types. *)
LoginPC == {"hello", "iam", "newpass", "pass", "save", "insert", "close", "enter"}

LEMMA NoRecNotRec == NoRec \notin Rec
BY DEF NoRec, Rec

LEMMA IdleTyped == Idle \in Th /\ Idle.pc = "idle"
BY DEF Idle, Th, PC

LEMMA BlankTyped ==
  ASSUME NEW n \in Name \cup {NoName}, NEW p \in Password \cup {NoPassword},
         NEW f \in Fd \cup {NoFd}
  PROVE  [Blank EXCEPT !.name = n, !.password = p, !.fd = f] \in Record
BY DEF Blank, Record

LEMMA OneThread ==
  ASSUME ThTyped, NEW t \in Thread, NEW v \in Th, th' = [th EXCEPT ![t] = v]
  PROVE  ThTyped' /\ th'[t] = v /\ \A u \in Thread : u # t => th'[u] = th[u]
<1> HIDE DEF Th
<1> QED
  BY DEF ThTyped

LEMMA OneRecord ==
  ASSUME RecTyped, NEW r, NEW v \in Record, rec' = [rec EXCEPT ![r] = v]
  PROVE  RecTyped' /\ \A q \in Rec : rec'[q] = IF q = r THEN v ELSE rec[q]
<1> HIDE DEF Record, Rec
<1> QED
  BY DEF RecTyped

(* A step of thread t: LoginInv asks little of it. *)
LEMMA LoginKept ==
  ASSUME ThTyped, LoginInv, up, up', NEW t \in Thread, NEW v \in Th,
         th' = [th EXCEPT ![t] = v],
         v.pc \in LoginPC => InLogin(t) /\ v.cur = th[t].cur,
         v.pc = "pass" => v.found \in Rec,
         v.pc = "newpass" => v.nm \in Name,
         v.pc \in {"save", "insert"} => rec'[v.cur].name \in Name /\ rec'[v.cur].password \in Valid,
         \A u \in Thread \ {t} : th[u].pc \in {"save", "insert"} =>
           /\ rec'[th[u].cur].name = rec[th[u].cur].name
           /\ rec'[th[u].cur].password = rec[th[u].cur].password
  PROVE  LoginInv'
<1>1. th'[t] = v /\ \A u \in Thread : u # t => th'[u] = th[u]
  BY OneThread
<1> HIDE DEF Rec
<1> QED
  BY <1>1, SMT DEF LoginInv, InLogin, LoginPC

(* A field of a record changes, neither the name nor the password. *)
LEMMA FieldKept ==
  ASSUME RecTyped, NEW r, NEW v,
         \/ v \in BOOLEAN /\ rec' = [rec EXCEPT ![r].connected = v]
         \/ v \in Fd \cup {NoFd} /\ rec' = [rec EXCEPT ![r].fd = v]
  PROVE  /\ RecTyped'
         /\ \A q \in Rec : rec'[q].name = rec[q].name /\ rec'[q].password = rec[q].password
<1>1. \A q \in Rec : rec[q] \in Record
  BY DEF RecTyped
<1>2. \A q \in Rec : /\ v \in BOOLEAN => [rec[q] EXCEPT !.connected = v] \in Record
                     /\ v \in Fd \cup {NoFd} => [rec[q] EXCEPT !.fd = v] \in Record
  BY <1>1 DEF Record
<1>3. \A q \in Rec : /\ [rec[q] EXCEPT !.connected = v].name = rec[q].name
                     /\ [rec[q] EXCEPT !.connected = v].password = rec[q].password
                     /\ [rec[q] EXCEPT !.fd = v].name = rec[q].name
                     /\ [rec[q] EXCEPT !.fd = v].password = rec[q].password
  BY <1>1 DEF Record
<1> HIDE DEF Record, Rec
<1>4. CASE v \in BOOLEAN /\ rec' = [rec EXCEPT ![r].connected = v]
  <2>1. /\ rec' = [q \in Rec |-> IF q = r THEN [rec[q] EXCEPT !.connected = v] ELSE rec[q]]
    BY <1>4 DEF RecTyped
  <2> DEFINE w(q) == [rec[q] EXCEPT !.connected = v]
  <2>2. \A q \in Rec : /\ w(q) \in Record /\ w(q).name = rec[q].name
                       /\ w(q).password = rec[q].password
    BY <1>2, <1>3, <1>4
  <2>3. rec' = [q \in Rec |-> IF q = r THEN w(q) ELSE rec[q]]
    BY <2>1
  <2> HIDE DEF w
  <2> QED
    BY <1>1, <2>2, <2>3 DEF RecTyped
<1>5. CASE v \in Fd \cup {NoFd} /\ rec' = [rec EXCEPT ![r].fd = v]
  <2>1. /\ rec' = [q \in Rec |-> IF q = r THEN [rec[q] EXCEPT !.fd = v] ELSE rec[q]]
    BY <1>5 DEF RecTyped
  <2> QED
    BY <1>1, <1>2, <1>3, <1>5, <2>1 DEF RecTyped
<1> QED
  BY <1>4, <1>5

(* The acting thread's record: some fields of it, or a fresh one. *)
LEMMA PlaceField ==
  ASSUME ThTyped, NEW t \in Thread, NEW pc \in PC
  PROVE  th[t] \in Th /\ [th[t] EXCEPT !.pc = pc] \in Th
BY DEF ThTyped, Th

LEMMA NameField ==
  ASSUME ThTyped, NEW t \in Thread, NEW pc \in PC, NEW n \in Name
  PROVE  [th[t] EXCEPT !.pc = pc, !.nm = n] \in Th
BY DEF ThTyped, Th

LEMMA NamedField ==
  ASSUME ThTyped, NEW t \in Thread, NEW pc \in PC, NEW n \in Name, NEW r \in Rec
  PROVE  [th[t] EXCEPT !.pc = pc, !.nm = n, !.found = r] \in Th
BY DEF ThTyped, Th

LEMMA FoundField ==
  ASSUME ThTyped, NEW t \in Thread, NEW pc \in PC, NEW r \in Rec \cup {NoRec}
  PROVE  [th[t] EXCEPT !.pc = pc, !.found = r] \in Th
BY DEF ThTyped, Th

LEMMA FreshThread ==
  ASSUME NEW pc \in PC, NEW f \in Fd \cup {NoFd}, NEW r \in Rec
  PROVE  /\ [Idle EXCEPT !.pc = pc, !.fd = f, !.cur = r] \in Th
         /\ [Idle EXCEPT !.pc = pc, !.cur = r, !.fd = f] \in Th
BY DEF Th, Idle

NextClash == clash' = (clash \/ Clashing')

(* What a step leaves alone keeps its type. *)
LEMMA SameTyped ==
  /\ ListTyped /\ UNCHANGED users => ListTyped'
  /\ RecTyped /\ UNCHANGED rec => RecTyped'
  /\ DbTyped /\ UNCHANGED db => DbTyped'
  /\ ThTyped /\ UNCHANGED th => ThTyped'
  /\ BasicTyped /\ NextClash /\ UNCHANGED <<up, open, database>> => BasicTyped'
BY DEF ListTyped, RecTyped, DbTyped, ThTyped, BasicTyped, NextClash

LEMMA AtWork ==
  ASSUME LoginInv, NEW t \in Thread, BasicTyped, th[t].pc # "idle"
  PROVE  up
BY IdleTyped DEF LoginInv, BasicTyped

LEMMA ActsWhenUp ==
  ASSUME TypeInv, NEW t \in Thread, Connection(t)
  PROVE  up
<1>1. ASSUME NEW l, Reads(t, l) PROVE up
  BY <1>1 DEF Reads, TypeInv, LoginInv, BasicTyped
<1>2. (th[t].pc # "idle" \/ up) \/ \E l : Reads(t, l)
  BY DEF Connection, Accept, Hello, WrongMessage, IamNew, Iam, NewPass, Pass, OpenDatabase, Insert,
    CloseDatabase, UseAfterClose, AtDatabase, Enter, Bye, Crash, Off
<1> QED
  BY <1>1, <1>2, AtWork DEF TypeInv

(* Only the thread changes. *)
LEMMA TypeThreadOnly ==
  ASSUME TypeInv, NextClash, up, NEW t \in Thread, NEW v \in Th, th' = [th EXCEPT ![t] = v],
         UNCHANGED <<up, open, users, rec, db, database>>,
         v.pc \in LoginPC => InLogin(t) /\ v.cur = th[t].cur,
         v.pc = "pass" => v.found \in Rec,
         v.pc = "newpass" => v.nm \in Name,
         v.pc \notin {"save", "insert"}
  PROVE  TypeInv'
<1>1. LoginInv'
  BY LoginKept DEF TypeInv
<1> QED
  BY <1>1, SameTyped, OneThread DEF TypeInv

LEMMA TypeHello ==
  ASSUME TypeInv, NextClash, up, NEW t \in Thread, Hello(t)
  PROVE  TypeInv'
<1> DEFINE v == [th[t] EXCEPT !.pc = "iam"]
<1>1. th[t] \in Th /\ v \in Th
  BY PlaceField DEF TypeInv, PC
<1>2. v.pc = "iam" /\ v.cur = th[t].cur
  BY <1>1 DEF Th
<1> HIDE DEF Th
<1>3. InLogin(t) /\ th' = [th EXCEPT ![t] = v] /\ UNCHANGED <<up, open, users, rec, db, database>>
  BY DEF Hello, Reads, InLogin
<1> HIDE DEF v
<1> QED
  BY <1>1, <1>2, <1>3, TypeThreadOnly DEF LoginPC

LEMMA TypeRefuse ==
  ASSUME TypeInv, NextClash, up, NEW t \in Thread, Refuse(t) \/ RefuseAtEnd(t)
  PROVE  TypeInv'
<1>1. th' = [th EXCEPT ![t] = Idle] /\ UNCHANGED <<up, open, rec, db, database>>
  BY DEF Refuse, RefuseAtEnd
<1>2. LoginInv'
  BY <1>1, IdleTyped, LoginKept DEF TypeInv, LoginPC
<1>3. LET s == RemoveByFD(users, th[t].fd)
      IN /\ s \in Seq(Rec) /\ IsInjective(s)
         /\ RemoveByFD(s, th[t].fd) \in Seq(Rec) /\ IsInjective(RemoveByFD(s, th[t].fd))
  BY FdRemoved DEF TypeInv, ListTyped
<1>4. ListTyped'
  BY <1>3 DEF Refuse, RefuseAtEnd, ListTyped
<1> QED
  BY <1>1, <1>2, <1>4, SameTyped, OneThread, IdleTyped DEF TypeInv

LEMMA TypeIamNew ==
  ASSUME TypeInv, NextClash, up, NEW t \in Thread, NEW n \in Name, IamNew(t, n)
  PROVE  TypeInv'
<1>1. CASE GetUser(n) # NoRec
  BY <1>1, TypeRefuse DEF IamNew
<1>2. CASE GetUser(n) = NoRec
  <2> DEFINE v == [th[t] EXCEPT !.pc = "newpass", !.nm = n]
  <2>1. th[t] \in Th /\ v \in Th
    BY PlaceField, NameField DEF TypeInv, PC
  <2>2. v.pc = "newpass" /\ v.cur = th[t].cur /\ v.nm = n
    BY <2>1 DEF Th
  <2> HIDE DEF Th
  <2>3. InLogin(t) /\ th' = [th EXCEPT ![t] = v] /\ UNCHANGED <<up, open, users, rec, db, database>>
    BY <1>2 DEF IamNew, Reads, InLogin
  <2> HIDE DEF v
  <2> QED
    BY <2>1, <2>2, <2>3, TypeThreadOnly
<1> QED
  BY <1>1, <1>2

LEMMA TypeIam ==
  ASSUME TypeInv, NextClash, up, NEW t \in Thread, NEW n \in Name, Iam(t, n)
  PROVE  TypeInv'
<1>1. CASE GetUser(n) = NoRec \/ rec[GetUser(n)].connected
  BY <1>1, TypeRefuse DEF Iam
<1>2. CASE ~(GetUser(n) = NoRec \/ rec[GetUser(n)].connected)
  <2> DEFINE v == [th[t] EXCEPT !.pc = "pass", !.nm = n, !.found = GetUser(n)]
  <2>0. GetUser(n) \in Rec
    BY <1>2, UserFound DEF TypeInv
  <2>1. th[t] \in Th /\ v \in Th
    BY <2>0, PlaceField, NamedField DEF TypeInv, PC
  <2>2. v.pc = "pass" /\ v.cur = th[t].cur /\ v.found = GetUser(n)
    BY <2>1 DEF Th
  <2> HIDE DEF Th
  <2>3. InLogin(t) /\ th' = [th EXCEPT ![t] = v] /\ UNCHANGED <<up, open, users, rec, db, database>>
    BY <1>2 DEF Iam, Reads, InLogin
  <2> HIDE DEF v
  <2> QED
    BY <2>0, <2>1, <2>2, <2>3, TypeThreadOnly
<1> QED
  BY <1>1, <1>2

LEMMA TypeNewPass ==
  ASSUME TypeInv, NextClash, up, NEW t \in Thread, NEW p \in Password, NewPass(t, p)
  PROVE  TypeInv'
<1>1. CASE p \notin Valid
  BY <1>1, TypeRefuse DEF NewPass
<1>2. CASE p \in Valid
  <2> DEFINE c == th[t].cur
             v == [th[t] EXCEPT !.pc = "save"]
             w == [rec[c] EXCEPT !.connected = TRUE, !.name = th[t].nm, !.password = p]
  <2>1. th[t] \in Th /\ v \in Th
    BY PlaceField DEF TypeInv, PC
  <2>2. v.pc = "save" /\ v.cur = c
    BY <2>1 DEF Th
  <2>3. th[t].pc = "newpass" /\ InLogin(t) /\ c \in Rec /\ th[t].nm \in Name
    BY DEF NewPass, Reads, TypeInv, LoginInv, InLogin
  <2>4. rec[c] \in Record
    BY <2>3 DEF TypeInv, RecTyped
  <2>5. w \in Record /\ w.name = th[t].nm /\ w.password = p
    BY <2>3, <2>4 DEF Record
  <2>6. /\ th' = [th EXCEPT ![t] = v] /\ rec' = [rec EXCEPT ![c] = w]
        /\ UNCHANGED <<up, open, users, db, database>>
    BY <1>2 DEF NewPass
  <2> HIDE DEF Th, Record, v, w, Rec
  <2>7. RecTyped' /\ \A q \in Rec : rec'[q] = IF q = c THEN w ELSE rec[q]
    BY <2>5, <2>6, OneRecord DEF TypeInv
  <2>8. rec'[v.cur].name \in Name /\ rec'[v.cur].password \in Valid
    BY <1>2, <2>2, <2>3, <2>5, <2>7
  <2>9. \A u \in Thread \ {t} : th[u].pc \in {"save", "insert"} => th[u].cur \in Rec /\ th[u].cur # c
    BY <2>3 DEF TypeInv, LoginInv, InLogin
  <2>10. LoginInv'
    BY <2>1, <2>2, <2>3, <2>6, <2>7, <2>8, <2>9, LoginKept DEF TypeInv
  <2> QED
    BY <2>1, <2>6, <2>7, <2>10, SameTyped, OneThread DEF TypeInv
<1> QED
  BY <1>1, <1>2

LEMMA TypeOpen ==
  ASSUME TypeInv, NextClash, up, NEW t \in Thread, OpenDatabase(t)
  PROVE  TypeInv'
<1> DEFINE label == IF HasAccounts THEN "insert" ELSE "enter"
           v == [th[t] EXCEPT !.pc = label]
<1>1. th[t] \in Th /\ v \in Th
  BY PlaceField DEF TypeInv, PC
<1>2. v.pc = label /\ v.cur = th[t].cur
  BY <1>1 DEF Th
<1>3. /\ InLogin(t) /\ th' = [th EXCEPT ![t] = v] /\ UNCHANGED <<up, open, users, rec, db>>
      /\ database' \in {database, "open"}
  BY DEF OpenDatabase, InLogin
<1>4. rec[th[t].cur].name \in Name /\ rec[th[t].cur].password \in Valid
  BY DEF OpenDatabase, TypeInv, LoginInv
<1>5. label \notin {"pass", "newpass"}
  OBVIOUS
<1> HIDE DEF Th, v, label
<1>6. LoginInv'
  BY <1>1, <1>2, <1>3, <1>4, <1>5, LoginKept DEF TypeInv
<1>7. BasicTyped'
  BY <1>3 DEF TypeInv, BasicTyped, NextClash
<1> QED
  BY <1>1, <1>3, <1>6, <1>7, SameTyped, OneThread DEF TypeInv

LEMMA TypeInsert ==
  ASSUME TypeInv, NextClash, up, NEW t \in Thread, Insert(t)
  PROVE  TypeInv'
<1> DEFINE v == [th[t] EXCEPT !.pc = "close"]
           row == [name |-> rec[th[t].cur].name, password |-> rec[th[t].cur].password]
<1>1. th[t] \in Th /\ v \in Th
  BY PlaceField DEF TypeInv, PC
<1>2. v.pc = "close" /\ v.cur = th[t].cur
  BY <1>1 DEF Th
<1>3. InLogin(t) /\ th' = [th EXCEPT ![t] = v] /\ UNCHANGED <<up, open, users, rec, database>>
  BY DEF Insert, InLogin
<1>4. row \in Row /\ row.name = rec[th[t].cur].name
  BY DEF Insert, TypeInv, LoginInv, Row
<1>5. \/ db' = db
      \/ db' = Append(db, row) /\ \A i \in DOMAIN db : db[i].name # row.name
  BY DEF Insert
<1> HIDE DEF Th, v, Row, row
<1>6. DbTyped'
  <2>1. CASE db' = db
    BY <2>1, SameTyped DEF TypeInv
  <2>2. CASE db' = Append(db, row) /\ \A i \in DOMAIN db : db[i].name # row.name
    <3>1. /\ Append(db, row) \in Seq(Row)
          /\ DOMAIN Append(db, row) = DOMAIN db \cup {Len(db) + 1}
          /\ Append(db, row)[Len(db) + 1] = row
          /\ \A i \in DOMAIN db : Append(db, row)[i] = db[i]
      BY <1>4 DEF TypeInv, DbTyped
    <3> QED
      BY <2>2, <3>1 DEF TypeInv, DbTyped
  <2> QED
    BY <1>5, <2>1, <2>2
<1>7. LoginInv'
  BY <1>1, <1>2, <1>3, LoginKept DEF TypeInv, LoginPC
<1> QED
  BY <1>1, <1>3, <1>6, <1>7, SameTyped, OneThread DEF TypeInv

LEMMA TypeClose ==
  ASSUME TypeInv, NextClash, up, NEW t \in Thread, CloseDatabase(t)
  PROVE  TypeInv'
<1> DEFINE v == [th[t] EXCEPT !.pc = "enter"]
<1>1. th[t] \in Th /\ v \in Th
  BY PlaceField DEF TypeInv, PC
<1>2. v.pc = "enter" /\ v.cur = th[t].cur
  BY <1>1 DEF Th
<1>3. /\ InLogin(t) /\ th' = [th EXCEPT ![t] = v] /\ UNCHANGED <<up, open, users, rec, db>>
      /\ database' = "closed"
  BY DEF CloseDatabase, InLogin
<1> HIDE DEF Th, v
<1>4. LoginInv'
  BY <1>1, <1>2, <1>3, LoginKept DEF TypeInv, LoginPC
<1>5. BasicTyped'
  BY <1>3 DEF TypeInv, BasicTyped, NextClash
<1> QED
  BY <1>1, <1>3, <1>4, <1>5, SameTyped, OneThread DEF TypeInv

(* The server ends. *)
LEMMA TypeHalt ==
  ASSUME TypeInv, NextClash, Halt
  PROVE  TypeInv'
<1>1. /\ up' = FALSE /\ open' = {} /\ users' = <<>> /\ UNCHANGED db /\ database' = "closed"
      /\ rec' = [r \in Rec |-> Blank] /\ th' = [t \in Thread |-> Idle]
  BY DEF Halt
<1>2. Blank \in Record
  BY DEF Blank, Record
<1>3. Idle.pc = "idle" /\ Idle \in Th
  BY IdleTyped
<1> HIDE DEF Record, Th, Rec
<1>4. RecTyped' /\ ThTyped'
  BY <1>1, <1>2, <1>3 DEF RecTyped, ThTyped
<1>5. BasicTyped'
  BY <1>1 DEF TypeInv, BasicTyped, NextClash
<1>6. ListTyped'
  BY <1>1 DEF ListTyped, IsInjective
<1>7. \A t \in Thread : th'[t] = Idle
  BY <1>1
<1>8. LoginInv'
  BY <1>1, <1>3, <1>7 DEF LoginInv, InLogin
<1> QED
  BY <1>1, <1>4, <1>5, <1>6, <1>8, SameTyped DEF TypeInv

LEMMA TypeStart ==
  ASSUME TypeInv, NextClash, Start
  PROVE  TypeInv'
<1>1. /\ ~up /\ Len(db) <= MaxRec /\ up' = TRUE /\ UNCHANGED <<open, db, database, th>>
      /\ users' = [i \in DOMAIN db |-> i]
      /\ rec' = [r \in Rec |->
           IF r \in DOMAIN db
             THEN [Blank EXCEPT !.name = db[r].name, !.password = db[r].password]
             ELSE Blank]
  BY DEF Start
<1>2. DOMAIN db = 1 .. Len(db) /\ Len(db) \in Nat /\ \A i \in DOMAIN db : db[i] \in Row
  BY DEF TypeInv, DbTyped
<1>3. ListTyped'
  <2> DEFINE n == Len(db)
  <2>1. n \in Nat /\ n <= MaxRec /\ MaxRec \in Nat /\ users' = [i \in 1 .. n |-> i]
    BY <1>1, <1>2, FirstServerAssumption
  <2> HIDE DEF n
  <2>2. \A i \in 1 .. n : i \in Rec
    BY <2>1 DEF Rec
  <2> HIDE DEF Rec
  <2>3. users' \in Seq(Rec)
    BY <2>1, <2>2
  <2> QED
    BY <2>1, <2>3 DEF ListTyped, IsInjective
<1>4. RecTyped'
  <2>1. Blank \in Record
    BY DEF Blank, Record
  <2>2. \A r \in DOMAIN db :
          [Blank EXCEPT !.name = db[r].name, !.password = db[r].password] \in Record
    BY <1>2, FirstServerAssumption DEF Blank, Record, Row
  <2> HIDE DEF Record, Rec
  <2> QED
    BY <1>1, <2>1, <2>2 DEF RecTyped
<1>5. \A t \in Thread : th'[t] = Idle
  BY <1>1 DEF TypeInv, LoginInv
<1>6. LoginInv'
  BY <1>1, <1>5, IdleTyped DEF LoginInv, InLogin
<1>7. BasicTyped'
  BY <1>1 DEF TypeInv, BasicTyped, NextClash
<1> QED
  BY <1>1, <1>3, <1>4, <1>6, <1>7, SameTyped DEF TypeInv

LEMMA TypeAccept ==
  ASSUME TypeInv, NextClash, up, NEW t \in Thread, NEW f \in Fd, Accept(t, f)
  PROVE  TypeInv'
<1> DEFINE r == Min(FreeRec)
           v == [Idle EXCEPT !.pc = "hello", !.fd = f, !.cur = r]
           w == [Blank EXCEPT !.fd = f]
<1>1. /\ FreeRec # {} /\ open' = open \cup {f} /\ UNCHANGED <<up, db, database>>
      /\ users' = Append(users, r) /\ rec' = [rec EXCEPT ![r] = w]
      /\ th' = [th EXCEPT ![t] = v]
  BY DEF Accept
<1>2. /\ r \in Rec /\ r \notin ToSet(users)
      /\ \A u \in Thread : th[u].cur # r
  BY <1>1, NewFirst DEF FreeRec
<1>3. v \in Th /\ v.pc = "hello" /\ v.cur = r
  BY <1>2, FreshThread DEF PC, Idle
<1>4. w \in Record
  BY DEF Blank, Record
<1> HIDE DEF r, v, w, Th, Record, Rec
<1>5. ListTyped'
  BY <1>1, <1>2, OneMore DEF TypeInv, ListTyped
<1>6. RecTyped' /\ \A q \in Rec : rec'[q] = IF q = r THEN w ELSE rec[q]
  BY <1>1, <1>4, OneRecord DEF TypeInv
<1>7. ThTyped' /\ th'[t] = v /\ \A u \in Thread : u # t => th'[u] = th[u]
  BY <1>1, <1>3, OneThread DEF TypeInv
<1>8. BasicTyped'
  BY <1>1 DEF TypeInv, BasicTyped, NextClash
<1>9. \A u \in Thread : th[u].pc \in {"save", "insert"} => th[u].cur \in Rec /\ th[u].cur # r
  BY <1>2 DEF TypeInv, LoginInv, InLogin
<1>10. LoginInv'
  BY <1>1, <1>2, <1>3, <1>6, <1>7, <1>9 DEF TypeInv, LoginInv, InLogin
<1> QED
  BY <1>1, <1>5, <1>6, <1>7, <1>8, <1>10, SameTyped DEF TypeInv

LEMMA TypePass ==
  ASSUME TypeInv, NextClash, up, NEW t \in Thread, NEW p \in Password, Pass(t, p)
  PROVE  TypeInv'
<1> DEFINE g == th[t].found
           v == [th[t] EXCEPT !.pc = "enter"]
           w == [rec[g] EXCEPT !.connected = TRUE, !.fd = rec[th[t].cur].fd]
<1>1. CASE p # rec[g].password
  BY <1>1, TypeRefuse DEF Pass
<1>2. CASE p = rec[g].password
  <2>1. th[t] \in Th /\ v \in Th
    BY PlaceField DEF TypeInv, PC
  <2>2. v.pc = "enter" /\ v.cur = th[t].cur
    BY <2>1 DEF Th
  <2>3. InLogin(t) /\ th[t].cur \in Rec /\ g \in Rec
    BY DEF Pass, Reads, TypeInv, LoginInv, InLogin
  <2>4. rec[g] \in Record /\ rec[th[t].cur] \in Record
    BY <2>3 DEF TypeInv, RecTyped
  <2>5. w \in Record /\ w.name = rec[g].name /\ w.password = rec[g].password
    BY <2>4 DEF Record
  <2>6. /\ users' = RemoveByFD(users, th[t].fd) /\ UNCHANGED <<up, open, db, database>>
        /\ th' = [th EXCEPT ![t] = v] /\ rec' = [rec EXCEPT ![g] = w]
    BY <1>2 DEF Pass
  <2>7. ListTyped'
    BY <2>6, FdRemoved DEF TypeInv, ListTyped
  <2> HIDE DEF Th, Record, v, w, Rec
  <2>8. RecTyped' /\ \A q \in Rec : rec'[q] = IF q = g THEN w ELSE rec[q]
    BY <2>5, <2>6, OneRecord DEF TypeInv
  <2>9. \A q \in Rec : rec'[q].name = rec[q].name /\ rec'[q].password = rec[q].password
    BY <2>5, <2>8
  <2>10. \A u \in Thread : th[u].pc \in {"save", "insert"} => th[u].cur \in Rec
    BY DEF TypeInv, LoginInv, InLogin
  <2>11. LoginInv'
    BY <2>1, <2>2, <2>3, <2>6, <2>9, <2>10, LoginKept DEF TypeInv, LoginPC
  <2> QED
    BY <2>1, <2>6, <2>7, <2>8, <2>11, SameTyped, OneThread DEF TypeInv
<1> QED
  BY <1>1, <1>2

LEMMA TypeEnter ==
  ASSUME TypeInv, NextClash, up, NEW t \in Thread, Enter(t)
  PROVE  TypeInv'
<1> DEFINE r == GetUserByFD(rec[th[t].cur].fd)
           v == [Idle EXCEPT !.pc = "cmd", !.cur = r, !.fd = rec[r].fd]
<1>1. CASE r = NoRec
  BY <1>1, TypeHalt DEF Enter
<1>2. CASE r # NoRec
  <2>1. r \in Rec
    BY <1>2, FdFound DEF TypeInv
  <2>2. rec[r].fd \in Fd \cup {NoFd}
    BY <2>1 DEF TypeInv, RecTyped, Record
  <2>3. v \in Th /\ v.pc = "cmd"
    BY <2>1, <2>2, FreshThread DEF PC, Idle
  <2>4. th' = [th EXCEPT ![t] = v] /\ UNCHANGED <<up, open, users, rec, db, database>>
    BY <1>2 DEF Enter
  <2> HIDE DEF v, Th
  <2> QED
    BY <2>3, <2>4, TypeThreadOnly DEF LoginPC
<1> QED
  BY <1>1, <1>2

LEMMA TypeDisconnect ==
  ASSUME TypeInv, NextClash, up, NEW t \in Thread, NEW r \in Rec \cup {NoRec},
         NEW label \in {"off", "offBye"}, DisconnectUser(t, r, label)
  PROVE  TypeInv'
<1> DEFINE v == [th[t] EXCEPT !.pc = label, !.found = r]
<1>1. v \in Th /\ th[t] \in Th
  BY FoundField, PlaceField DEF TypeInv, PC
<1>2. v.pc = label
  BY <1>1 DEF Th
<1>3. /\ th' = [th EXCEPT ![t] = v] /\ UNCHANGED <<up, open, users, db, database>>
      /\ rec' = [rec EXCEPT ![r].connected = FALSE]
  BY DEF DisconnectUser
<1> HIDE DEF v, Th, Rec
<1>4. /\ RecTyped'
      /\ \A q \in Rec : rec'[q].name = rec[q].name /\ rec'[q].password = rec[q].password
  BY <1>3, FieldKept DEF TypeInv
<1>5. \A u \in Thread : th[u].pc \in {"save", "insert"} => th[u].cur \in Rec
  BY DEF TypeInv, LoginInv, InLogin
<1>6. LoginInv'
  BY <1>1, <1>2, <1>3, <1>4, <1>5, LoginKept DEF TypeInv, LoginPC
<1> QED
  BY <1>1, <1>3, <1>4, <1>6, SameTyped, OneThread DEF TypeInv

LEMMA TypeOff ==
  ASSUME TypeInv, NextClash, up, NEW t \in Thread, Off(t)
  PROVE  TypeInv'
<1>1. /\ th' = [th EXCEPT ![t] = Idle] /\ UNCHANGED <<up, users, db, database>>
      /\ rec' = [rec EXCEPT ![th[t].found].fd = NoFd]
      /\ open' \subseteq open
  BY DEF Off
<1> HIDE DEF Th, Rec
<1>2. /\ RecTyped'
      /\ \A q \in Rec : rec'[q].name = rec[q].name /\ rec'[q].password = rec[q].password
  BY <1>1, FieldKept DEF TypeInv
<1>3. \A u \in Thread : th[u].pc \in {"save", "insert"} => th[u].cur \in Rec
  BY DEF TypeInv, LoginInv, InLogin
<1>4. LoginInv'
  BY <1>1, <1>2, <1>3, IdleTyped, LoginKept DEF TypeInv, LoginPC
<1>5. BasicTyped'
  BY <1>1 DEF TypeInv, BasicTyped, NextClash
<1> QED
  BY <1>1, <1>2, <1>4, <1>5, IdleTyped, SameTyped, OneThread DEF TypeInv

LEMMA TypeConnection ==
  ASSUME TypeInv, NextClash, NEW t \in Thread, Connection(t)
  PROVE  TypeInv'
<1>1. up
  BY ActsWhenUp
<1>2. ASSUME NEW f \in Fd, Accept(t, f) PROVE TypeInv'
  BY <1>1, <1>2, TypeAccept
<1>3. ASSUME Hello(t) PROVE TypeInv'
  BY <1>1, <1>3, TypeHello
<1>4. ASSUME WrongMessage(t) PROVE TypeInv'
  BY <1>1, <1>4, TypeRefuse DEF WrongMessage
<1>5. ASSUME NEW n \in Name, IamNew(t, n) \/ Iam(t, n) PROVE TypeInv'
  BY <1>1, <1>5, TypeIamNew, TypeIam
<1>6. ASSUME NEW p \in Password, NewPass(t, p) \/ Pass(t, p) PROVE TypeInv'
  BY <1>1, <1>6, TypeNewPass, TypePass
<1>7. ASSUME Enter(t) \/ Off(t) PROVE TypeInv'
  BY <1>1, <1>7, TypeEnter, TypeOff
<1>8. ASSUME Bye(t) PROVE TypeInv'
  <2>1. GetUserByFD(th[t].fd) \in Rec \cup {NoRec}
    BY FdFound DEF TypeInv
  <2> QED
    BY <1>1, <1>8, <2>1, TypeHalt, TypeDisconnect DEF Bye
<1>9. ASSUME Crash(t) PROVE TypeInv'
  <2> DEFINE hit == GetUser(rec[th[t].cur].name)
             r == IF hit = NoRec THEN th[t].cur ELSE hit
  <2>1. th[t].cur \in Rec \cup {NoRec}
    BY DEF TypeInv, ThTyped, Th
  <2>2. r \in Rec \cup {NoRec}
    BY <2>1, UserFound DEF TypeInv
  <2>3. DisconnectUser(t, r, "off")
    BY <1>9 DEF Crash
  <2> QED
    BY <1>1, <2>2, <2>3, TypeDisconnect
<1>10. ASSUME OpenDatabase(t) \/ Insert(t) \/ CloseDatabase(t) \/ UseAfterClose(t)
       PROVE  TypeInv'
  BY <1>1, <1>10, TypeOpen, TypeInsert, TypeClose, TypeHalt DEF UseAfterClose
<1> QED
  BY <1>2, <1>3, <1>4, <1>5, <1>6, <1>7, <1>8, <1>9, <1>10 DEF Connection

LEMMA TypeInit == Init => TypeInv
<1> SUFFICES ASSUME Init PROVE TypeInv
  OBVIOUS
<1>1. \A t \in Thread : th[t] = Idle
  BY DEF Init
<1>2. Blank \in Record
  BY DEF Blank, Record
<1>3. Idle \in Th /\ Idle.pc = "idle"
  BY IdleTyped
<1> HIDE DEF Th, Record, Rec
<1>4. RecTyped /\ ThTyped
  BY <1>2, <1>3 DEF Init, RecTyped, ThTyped
<1>5. BasicTyped /\ ListTyped
  <2>1. /\ users = <<>> /\ up \in BOOLEAN /\ open \subseteq Fd /\ clash \in BOOLEAN
        /\ database = "closed"
    BY DEF Init
  <2> QED
    BY <2>1 DEF BasicTyped, ListTyped, IsInjective
<1>6. DbTyped
  BY DEF Init, DbTyped
<1>7. LoginInv
  BY <1>1, <1>3 DEF Init, LoginInv, InLogin
<1> QED
  BY <1>4, <1>5, <1>6, <1>7 DEF TypeInv

LEMMA TypeStep ==
  ASSUME TypeInv, [Next]_vars
  PROVE  TypeInv'
<1>1. CASE UNCHANGED vars
  BY <1>1 DEF vars, TypeInv, BasicTyped, ListTyped, RecTyped, DbTyped, ThTyped, LoginInv, InLogin
<1>2. CASE Next
  <2>1. NextClash
    BY <1>2 DEF Next, NextClash
  <2>2. ASSUME NEW t \in Thread, Connection(t) PROVE TypeInv'
    BY <2>1, <2>2, TypeConnection
  <2>3. ASSUME AcceptFails \/ Stop PROVE TypeInv'
    BY <2>1, <2>3, TypeHalt DEF AcceptFails, Stop
  <2>4. ASSUME Start PROVE TypeInv'
    BY <2>1, <2>4, TypeStart
  <2> QED
    BY <1>2, <2>2, <2>3, <2>4 DEF Next
<1> QED
  BY <1>1, <1>2

LEMMA TypesHold == Spec => []TypeInv
BY TypeInit, TypeStep, PTL DEF Spec

(* Whatever the threads do to each other, a record is linked once, the table *)
(* never has two rows of one name (which a restart would make two accounts   *)
(* of), and what it holds was accepted by validPassword.                     *)
THEOREM TypeCorrect == Spec => []TypeOK
<1>1. TypeInv => TypeOK
  BY TypeParts DEF TypeInv
<1> QED
  BY <1>1, TypesHold, PTL
-----------------------------------------------------------------------------
Named(r) == rec[r].name # NoName
OffPC == {"off", "offBye"}

(* The list: a descriptor and a name lead to one record, and a connected one *)
(* has both.                                                                 *)
ListQuiet ==
  /\ \A r \in Us : rec[r].fd # NoFd => rec[r].fd \in open
  /\ \A r \in Us : rec[r].connected => Named(r) /\ rec[r].fd # NoFd
  /\ \A r, q \in Us : rec[r].fd = rec[q].fd /\ rec[r].fd # NoFd => r = q
  /\ \A r, q \in Us : rec[r].name = rec[q].name /\ Named(r) => r = q

(* Record r is that of the session thread t leads. *)
Serving(t, r) == r \in Us /\ rec[r].connected /\ rec[r].fd = th[t].fd

ThreadQuiet(t) ==
  /\ th[t].pc # "idle" => th[t].fd \in open
  /\ InLogin(t) => rec[th[t].cur].fd = th[t].fd
  /\ th[t].pc \in {"hello", "iam", "newpass", "pass"} =>
       th[t].cur \in Us /\ ~Named(th[t].cur)
  /\ th[t].pc \in {"hello", "iam", "newpass", "save", "insert", "close"} => th[t].found = NoRec
  /\ th[t].pc = "newpass" => \A r \in Us : rec[r].name # th[t].nm
  /\ th[t].pc = "pass" =>
       /\ th[t].found \in Us /\ Named(th[t].found) /\ rec[th[t].found].name = th[t].nm
       /\ ~rec[th[t].found].connected
  /\ th[t].pc \in {"save", "insert", "close", "cmd"} => Serving(t, th[t].cur)
  /\ th[t].pc = "enter" =>
       \/ th[t].found = NoRec /\ Serving(t, th[t].cur)
       \/ Serving(t, th[t].found) /\ ~Named(th[t].cur)
  /\ th[t].pc \in OffPC => th[t].found \in Us /\ ~rec[th[t].found].connected
  /\ th[t].pc = "offBye" => \A r \in Us : rec[r].fd = th[t].fd => r = th[t].found

ThreadsQuiet == \A t \in Thread : ThreadQuiet(t)

ApartQuiet ==
  \A t, u \in Thread :
    t # u /\ th[t].pc # "idle" /\ th[u].pc # "idle" => th[t].fd # th[u].fd

AccountsIn(V, f) == {[name |-> f[r].name, password |-> f[r].password] : r \in V}

DbQuiet ==
  /\ up /\ HasAccounts => ToSet(db) = AccountsIn(Visible, rec)
  /\ ~HasAccounts => db = <<>>

(* One thread at a time is at the database, so its handle is open. *)
HandleQuiet == \A t \in Thread : AtDatabase(t) => HasAccounts /\ database = "open"

Quiet == ListQuiet /\ ThreadsQuiet /\ ApartQuiet /\ DbQuiet /\ HandleQuiet

IInv == TypeInv /\ (clash \/ (Quiet /\ ~Clashing))

-----------------------------------------------------------------------------
(* Which records a thread depends on, and that no two depend on one. *)

Own(t) ==
  IF InLogin(t) THEN {th[t].cur, th[t].found} \ {NoRec}
  ELSE IF th[t].pc = "cmd" THEN {th[t].cur}
  ELSE IF th[t].pc \in OffPC THEN {th[t].found}
  ELSE {}

LEMMA UsRec == ASSUME ListTyped PROVE Us \subseteq Rec
BY DEF ListTyped, Us, ToSet

LEMMA PCs ==
  ASSUME ThTyped, NEW t \in Thread
  PROVE  /\ th[t].pc \in PC /\ th[t].fd \in Fd \cup {NoFd}
         /\ th[t].cur \in Rec \cup {NoRec} /\ th[t].found \in Rec \cup {NoRec}
         /\ th[t].nm \in Name \cup {NoName}
BY DEF ThTyped, Th

LEMMA OwnRec ==
  ASSUME TypeInv, Quiet, NEW t \in Thread
  PROVE  Own(t) \subseteq Rec
<1>1. Us \subseteq Rec
  BY UsRec DEF TypeInv
<1>2. th[t].cur \in Rec \cup {NoRec} /\ th[t].found \in Rec \cup {NoRec}
  BY PCs DEF TypeInv
<1> HIDE DEF Rec, NoRec
<1> QED
  BY <1>1, <1>2 DEF Own, Quiet, ThreadsQuiet, ThreadQuiet, Serving

LEMMA OwnApart ==
  ASSUME TypeInv, Quiet, ~Clashing, NEW t \in Thread, NEW u \in Thread, t # u,
         NEW r \in Own(t), r \in Own(u)
  PROVE  th[t].pc \in OffPC /\ th[u].pc \in OffPC
<1>1. ThreadQuiet(t) /\ ThreadQuiet(u) /\ Us \subseteq Rec /\ r \in Rec /\ NoRec \notin Rec
  BY UsRec, OwnRec, NoRecNotRec DEF TypeInv, Quiet, ThreadsQuiet
<1>2. ListQuiet
  BY DEF Quiet
<1> HIDE DEF Rec, NoRec
<1>3. ASSUME NEW a \in Thread, NEW b \in Thread, a # b, InLogin(a), ThreadQuiet(a), ThreadQuiet(b),
             r \in Own(a), r \in Own(b)
      PROVE  FALSE
  <2>1. th[a].pc # "idle" /\ r \in {th[a].cur, th[a].found}
    BY <1>3 DEF Own, InLogin
  <2>2. th[b].pc \notin OffPC
    BY <1>3, <2>1 DEF Own, Clashing, OffPC, InLogin
  <2>3. th[b].pc # "idle"
    BY <1>3 DEF Own, InLogin, OffPC
  <2>4. th[a].fd # th[b].fd
    BY <1>3, <2>1, <2>3 DEF Quiet, ApartQuiet
  <2>5. CASE th[b].pc = "cmd"
    <3>1. r = th[b].cur /\ Serving(b, r)
      BY <1>3, <2>5 DEF Own, InLogin, ThreadQuiet
    <3>2. r = th[a].cur => rec[r].fd = th[a].fd
      BY <1>3 DEF ThreadQuiet
    <3>3. r # th[a].cur => th[a].pc \in {"pass", "enter"} /\ r = th[a].found
      BY <1>1, <1>3, <2>1 DEF ThreadQuiet, InLogin
    <3> QED
      BY <1>1, <1>3, <2>4, <3>1, <3>2, <3>3 DEF ThreadQuiet, Serving
  <2>6. CASE InLogin(b)
    <3>1. th[a].cur # th[b].cur
      BY <1>3, <2>6 DEF TypeInv, LoginInv
    <3>2. r \in {th[b].cur, th[b].found}
      BY <1>3, <2>6 DEF Own
    <3>3. ASSUME NEW c \in Thread, NEW d \in Thread, InLogin(c), InLogin(d), th[c].fd # th[d].fd,
                 ThreadQuiet(c), ThreadQuiet(d), r = th[c].cur, r = th[d].found
          PROVE  FALSE
      <4>1. th[d].pc \in {"pass", "enter"} /\ rec[r].fd = th[c].fd
        BY <1>1, <3>3 DEF ThreadQuiet, InLogin
      <4>2. Named(r)
        BY <1>1, <1>2, <3>3, <4>1 DEF ThreadQuiet, ListQuiet, Serving
      <4>3. Serving(c, r)
        BY <1>1, <3>3, <4>2 DEF ThreadQuiet, InLogin
      <4> QED
        BY <1>1, <3>3, <4>1, <4>3 DEF ThreadQuiet, Serving
    <3>4. CASE r = th[a].found /\ r = th[b].found
      <4>1. th[a].pc \in {"pass", "enter"} /\ th[b].pc \in {"pass", "enter"}
        BY <1>1, <1>3, <2>6, <3>4 DEF ThreadQuiet, InLogin
      <4>2. CASE th[a].pc = "pass" /\ th[b].pc = "pass"
        BY <1>3, <2>6, <3>4, <4>2 DEF ThreadQuiet, Clashing, Named
      <4> QED
        BY <1>1, <1>3, <2>4, <3>4, <4>1, <4>2 DEF ThreadQuiet, Serving
    <3> QED
      BY <1>3, <2>1, <2>4, <2>6, <3>1, <3>2, <3>3, <3>4
  <2> QED
    BY <1>3, <2>2, <2>5, <2>6 DEF Own
<1>4. CASE InLogin(t) \/ InLogin(u)
  BY <1>1, <1>3, <1>4
<1>5. CASE th[t].pc = "cmd" \/ th[u].pc = "cmd"
  <2>1. ~InLogin(t) /\ ~InLogin(u)
    BY <1>4, <1>1, <1>3
  <2>2. th[t].pc # "idle" /\ th[u].pc # "idle"
    BY <2>1 DEF Own, OffPC
  <2>3. th[t].fd # th[u].fd
    BY <2>2 DEF Quiet, ApartQuiet
  <2> QED
    BY <1>1, <1>5, <2>1, <2>3 DEF Own, ThreadQuiet, Serving
<1> QED
  BY <1>4, <1>5, <1>1, <1>3 DEF Own

(* What thread u relies on stays. *)
LEMMA OtherQuiet ==
  ASSUME TypeInv, Quiet, NEW u \in Thread, th'[u] = th[u],
         \A r \in Own(u) : /\ r \in Us => r \in Us'
                           /\ rec'[r].name = rec[r].name
                           /\ rec'[r].connected = rec[r].connected
                           /\ th[u].pc \notin OffPC => rec'[r].fd = rec[r].fd,
         th[u].pc = "newpass" => \A r \in Us' : rec'[r].name # th[u].nm,
         th[u].pc = "offBye" => \A r \in Us' : rec'[r].fd = th[u].fd => r = th[u].found,
         th[u].pc # "idle" => th[u].fd \in open'
  PROVE  ThreadQuiet(u)'
<1>1. ThreadQuiet(u) /\ Us \subseteq Rec /\ NoRec \notin Rec
  BY UsRec, NoRecNotRec DEF Quiet, ThreadsQuiet, TypeInv
<1>2. InLogin(u) => th[u].cur \in Own(u) /\ th[u].pc \notin OffPC /\ th[u].cur \in Rec
  BY <1>1 DEF TypeInv, LoginInv, Own, OffPC, InLogin
<1>3. /\ th[u].pc = "pass" => th[u].found \in Own(u)
      /\ th[u].pc = "enter" /\ Serving(u, th[u].found) => th[u].found \in Own(u)
  BY <1>1 DEF Own, InLogin, ThreadQuiet, Serving
<1>4. th[u].pc = "cmd" => th[u].cur \in Own(u) /\ th[u].pc \notin OffPC
  BY DEF Own, InLogin, OffPC
<1>5. th[u].pc \in OffPC => th[u].found \in Own(u)
  BY DEF Own, InLogin, OffPC
<1>6. InLogin(u)' <=> InLogin(u)
  BY DEF InLogin
<1> HIDE DEF Rec, NoRec
<1>7. /\ th'[u].pc \in {"hello", "iam", "newpass", "pass"} =>
           th'[u].cur \in Us' /\ ~(Named(th[u].cur)')
      /\ InLogin(u)' => rec'[th'[u].cur].fd = th'[u].fd
      /\ th'[u].pc \in {"hello", "iam", "newpass", "save", "insert", "close"} => th'[u].found = NoRec
  BY <1>1, <1>2, <1>6 DEF ThreadQuiet, Named, InLogin
<1>8. th'[u].pc = "pass" =>
        /\ th'[u].found \in Us' /\ Named(th[u].found)' /\ rec'[th'[u].found].name = th'[u].nm
        /\ ~rec'[th'[u].found].connected
  <2> SUFFICES ASSUME th[u].pc = "pass"
               PROVE  /\ th[u].found \in Us' /\ Named(th[u].found)'
                      /\ rec'[th[u].found].name = th[u].nm /\ ~rec'[th[u].found].connected
    OBVIOUS
  <2>1. /\ th[u].found \in Us /\ Named(th[u].found) /\ rec[th[u].found].name = th[u].nm
        /\ ~rec[th[u].found].connected
    BY <1>1 DEF ThreadQuiet
  <2>2. th[u].found \in Own(u)
    BY <1>3
  <2> QED
    BY <2>1, <2>2 DEF Named
<1>9. th'[u].pc \in {"save", "insert", "close", "cmd"} => Serving(u, th[u].cur)'
  BY <1>1, <1>2, <1>4 DEF ThreadQuiet, Serving, InLogin
<1>10. th'[u].pc = "enter" =>
         \/ th'[u].found = NoRec /\ Serving(u, th[u].cur)'
         \/ Serving(u, th[u].found)' /\ ~(Named(th[u].cur)')
  <2> SUFFICES ASSUME th[u].pc = "enter"
               PROVE  \/ th[u].found = NoRec /\ Serving(u, th[u].cur)'
                      \/ Serving(u, th[u].found)' /\ ~(Named(th[u].cur)')
    OBVIOUS
  <2>1. th[u].cur \in Own(u) /\ th[u].pc \notin OffPC
    BY <1>2 DEF InLogin
  <2>2. CASE th[u].found = NoRec /\ Serving(u, th[u].cur)
    BY <2>1, <2>2 DEF Serving
  <2>3. CASE Serving(u, th[u].found) /\ ~Named(th[u].cur)
    BY <1>3, <2>1, <2>3 DEF Serving, Named
  <2> QED
    BY <1>1, <2>2, <2>3 DEF ThreadQuiet
<1>11. th'[u].pc \in OffPC => th'[u].found \in Us' /\ ~rec'[th'[u].found].connected
  BY <1>1, <1>5 DEF ThreadQuiet
<1> QED
  BY <1>7, <1>8, <1>9, <1>10, <1>11 DEF ThreadQuiet, Serving, Named

(* A step of thread t that changes only records of its own. *)
LEMMA Frame ==
  ASSUME TypeInv, Quiet, ~Clashing, NEW t \in Thread, NEW u \in Thread, u # t,
         th'[u] = th[u], open' = open,
         th[t].pc \notin OffPC, th[t].pc # "idle",
         Us' \subseteq Us,
         \A r \in Rec : r \notin Own(t) => rec'[r] = rec[r] /\ (r \in Us => r \in Us'),
         \A r \in Us' : /\ th[u].pc = "newpass" => \/ rec'[r].name = rec[r].name
                                                   \/ rec'[r].name # th[u].nm
                        /\ rec'[r].fd = rec[r].fd \/ rec'[r].fd = th[t].fd
  PROVE  ThreadQuiet(u)'
<1>1. ThreadQuiet(u) /\ Own(u) \subseteq Rec
  BY OwnRec DEF Quiet, ThreadsQuiet
<1>2. \A r \in Own(u) : r \notin Own(t)
  BY OwnApart
<1>3. th[u].pc # "idle" => th[u].fd # th[t].fd
  BY DEF Quiet, ApartQuiet
<1> HIDE DEF Rec
<1>4. th[u].pc = "newpass" => \A r \in Us' : rec'[r].name # th[u].nm
  BY <1>1 DEF ThreadQuiet
<1>5. th[u].pc = "offBye" => \A r \in Us' : rec'[r].fd = th[u].fd => r = th[u].found
  BY <1>1, <1>3 DEF ThreadQuiet
<1> QED
  BY <1>1, <1>2, <1>4, <1>5, OtherQuiet DEF ThreadQuiet

LEMMA HandleStays ==
  ASSUME HandleQuiet, UNCHANGED database, TypeInv, NEW t \in Thread, NEW v \in Th,
         th' = [th EXCEPT ![t] = v], v.pc \notin {"insert", "close"}
  PROVE  HandleQuiet'
<1>1. th'[t] = v /\ \A u \in Thread : u # t => th'[u] = th[u]
  BY OneThread DEF TypeInv
<1> QED
  BY <1>1 DEF HandleQuiet, AtDatabase

LEMMA StaysApart ==
  ASSUME ApartQuiet, NEW t \in Thread, \A u \in Thread : u # t => th'[u] = th[u],
         th'[t].pc = "idle" \/ (th[t].pc # "idle" /\ th'[t].fd = th[t].fd)
  PROVE  ApartQuiet'
BY DEF ApartQuiet

-----------------------------------------------------------------------------
(* What the clients see: accounts and sessions. *)

SessionIn(V, f) == [n \in Name |->
  IF \E r \in V : f[r].name = n /\ f[r].connected
    THEN f[CHOOSE r \in V : f[r].name = n /\ f[r].connected].fd
    ELSE NoFd]

NamesApart(V, f) == \A r, q \in V : f[r].name = f[q].name => r = q

LEMMA SessionIs ==
  /\ Session = SessionIn(Visible, rec)
  /\ Session' = SessionIn(Visible', rec')
BY DEF Session, SessionIn

LEMMA AccountsAre ==
  /\ Accounts = IF up THEN AccountsIn(Visible, rec) ELSE ToSet(db)
  /\ Accounts' = IF up' THEN AccountsIn(Visible', rec') ELSE ToSet(db')
BY DEF Accounts, AccountsIn

LEMMA SessionAt ==
  ASSUME NEW V, NEW f, NamesApart(V, f), NEW n \in Name
  PROVE  /\ \A r \in V : f[r].name = n /\ f[r].connected => SessionIn(V, f)[n] = f[r].fd
         /\ (\A r \in V : ~(f[r].name = n /\ f[r].connected)) => SessionIn(V, f)[n] = NoFd
<1>1. (\A r \in V : ~(f[r].name = n /\ f[r].connected)) => SessionIn(V, f)[n] = NoFd
  BY DEF SessionIn
<1>2. ASSUME NEW r \in V, f[r].name = n /\ f[r].connected
      PROVE  SessionIn(V, f)[n] = f[r].fd
  <2> DEFINE c == CHOOSE q \in V : f[q].name = n /\ f[q].connected
  <2>1. c \in V /\ f[c].name = n /\ f[c].connected
    BY <1>2
  <2>2. c = r
    BY <1>2, <2>1 DEF NamesApart
  <2>3. SessionIn(V, f)[n] = f[c].fd
    BY <1>2 DEF SessionIn
  <2> QED
    BY <2>2, <2>3
<1> QED
  BY <1>1, <1>2

(* The sessions differ at the name of record r at most. *)
LEMMA OneSession ==
  ASSUME NEW V, NEW f, NamesApart(V, f), NEW W, NEW g, NamesApart(W, g),
         NEW r \in W, NEW n \in Name, g[r].name = n, r \in V => f[r].name = n,
         V \ {r} = W \ {r},
         \A s \in V \ {r} : /\ g[s].name = f[s].name /\ g[s].connected = f[s].connected
                            /\ g[s].connected => g[s].fd = f[s].fd,
         NEW v, v = IF g[r].connected THEN g[r].fd ELSE NoFd
  PROVE  SessionIn(W, g) = [SessionIn(V, f) EXCEPT ![n] = v]
<1>1. ASSUME NEW m \in Name, m # n
      PROVE  SessionIn(W, g)[m] = SessionIn(V, f)[m]
  <2>1. CASE \E s \in V : f[s].name = m /\ f[s].connected
    <3>1. PICK s \in V : f[s].name = m /\ f[s].connected
      BY <2>1
    <3>2. s \in W /\ g[s].name = m /\ g[s].connected /\ g[s].fd = f[s].fd
      BY <1>1, <3>1
    <3> QED
      BY <3>1, <3>2, SessionAt
  <2>2. CASE ~\E s \in V : f[s].name = m /\ f[s].connected
    <3>1. \A s \in W : ~(g[s].name = m /\ g[s].connected)
      BY <1>1, <2>2
    <3> QED
      BY <2>2, <3>1, SessionAt
  <2> QED
    BY <2>1, <2>2
<1>2. SessionIn(W, g)[n] = v
  <2>1. CASE g[r].connected
    BY <2>1, SessionAt
  <2>2. CASE ~g[r].connected
    <3>1. \A s \in W : ~(g[s].name = n /\ g[s].connected)
      BY <2>2 DEF NamesApart
    <3> QED
      BY <2>2, <3>1, SessionAt
  <2> QED
    BY <2>1, <2>2
<1>3. /\ SessionIn(W, g) = [m \in Name |-> SessionIn(W, g)[m]]
      /\ SessionIn(V, f) = [m \in Name |-> SessionIn(V, f)[m]]
  BY DEF SessionIn
<1> QED
  BY <1>1, <1>2, <1>3

LEMMA SameSessions ==
  ASSUME NEW V, NEW f, NamesApart(V, f), NEW g,
         \A s \in V : /\ g[s].name = f[s].name /\ g[s].connected = f[s].connected
                      /\ g[s].connected => g[s].fd = f[s].fd
  PROVE  SessionIn(V, g) = SessionIn(V, f)
<1>0. NamesApart(V, g)
  BY DEF NamesApart
<1>1. ASSUME NEW m \in Name
      PROVE  SessionIn(V, g)[m] = SessionIn(V, f)[m]
  <2>1. CASE \E s \in V : f[s].name = m /\ f[s].connected
    BY <1>0, <2>1, SessionAt
  <2>2. CASE ~\E s \in V : f[s].name = m /\ f[s].connected
    BY <1>0, <2>2, SessionAt
  <2> QED
    BY <2>1, <2>2
<1>3. /\ SessionIn(V, g) = [m \in Name |-> SessionIn(V, g)[m]]
      /\ SessionIn(V, f) = [m \in Name |-> SessionIn(V, f)[m]]
  BY DEF SessionIn
<1> QED
  BY <1>1, <1>3

LEMMA VisibleApart == ASSUME ListQuiet PROVE NamesApart(Visible, rec)
BY DEF ListQuiet, NamesApart, Visible, Us, Named

LEMMA SameService ==
  ASSUME Quiet, up, up', db' = db, Visible' = Visible,
         \A r \in Visible : /\ rec'[r].name = rec[r].name /\ rec'[r].password = rec[r].password
                            /\ rec'[r].connected = rec[r].connected
                            /\ rec[r].connected => rec'[r].fd = rec[r].fd
  PROVE  DbQuiet' /\ UNCHANGED Chat!vars
<1>1. AccountsIn(Visible', rec') = AccountsIn(Visible, rec)
  BY DEF AccountsIn
<1>2. DbQuiet'
  BY <1>1 DEF Quiet, DbQuiet
<1>3. Accounts' = Accounts
  BY <1>1, AccountsAre
<1>4. NamesApart(Visible, rec)
  BY VisibleApart DEF Quiet
<1>5. SessionIn(Visible', rec') = SessionIn(Visible, rec)
  BY <1>4, SameSessions
<1>6. Session' = Session
  BY <1>5, SessionIs
<1> QED
  BY <1>2, <1>3, <1>6 DEF Chat!vars

LEMMA VisibleKept ==
  ASSUME NEW t \in Thread, Us' \subseteq Us, \A r \in Us : Named(r) => r \in Us',
         \A r \in Us : rec'[r].name = rec[r].name,
         \A u \in Thread : u # t => th'[u] = th[u],
         \/ th[t].pc \notin {"save", "insert"} /\ th'[t].pc \notin {"save", "insert"}
         \/ /\ th[t].pc \in {"save", "insert"} /\ th'[t].pc \in {"save", "insert"}
            /\ th'[t].cur = th[t].cur
  PROVE  Visible' = Visible
<1>1. \A u \in Thread : \A r : (th'[u].pc \in {"save", "insert"} => th'[u].cur # r)
                             <=> (th[u].pc \in {"save", "insert"} => th[u].cur # r)
  OBVIOUS
<1> QED
  BY <1>1 DEF Visible, Us, Named

(* Only the thread changes. *)
LEMMA ThreadOnly ==
  ASSUME TypeInv, TypeInv', Quiet, ~Clashing, NEW t \in Thread, NEW v \in Th,
         th' = [th EXCEPT ![t] = v], v.fd = th[t].fd,
         UNCHANGED <<up, open, users, rec, db>>, up, HandleQuiet',
         th[t].pc \notin OffPC \cup {"idle"},
         \/ th[t].pc \notin {"save", "insert"} /\ v.pc \notin {"save", "insert"}
         \/ th[t].pc \in {"save", "insert"} /\ v.pc \in {"save", "insert"} /\ v.cur = th[t].cur,
         ThreadQuiet(t)'
  PROVE  Quiet' /\ UNCHANGED Chat!vars
<1>1. th'[t] = v /\ \A u \in Thread : u # t => th'[u] = th[u]
  BY OneThread DEF TypeInv
<1>2. Us' = Us /\ ListQuiet'
  BY DEF Us, Quiet, ListQuiet, Named
<1>3. ASSUME NEW u \in Thread, u # t PROVE ThreadQuiet(u)'
  BY <1>1, <1>2, <1>3, Frame
<1>4. ApartQuiet'
  BY <1>1, StaysApart DEF Quiet
<1>5. Visible' = Visible
  BY <1>1, <1>2, VisibleKept
<1>6. DbQuiet' /\ UNCHANGED Chat!vars
  BY <1>5, SameService
<1> QED
  BY <1>2, <1>3, <1>4, <1>6 DEF Quiet, ThreadsQuiet

LEMMA HelloQuiet ==
  ASSUME TypeInv, TypeInv', Quiet, ~Clashing, up, NEW t \in Thread, Hello(t)
  PROVE  Quiet' /\ UNCHANGED Chat!vars
<1> DEFINE v == [th[t] EXCEPT !.pc = "iam"]
<1>1. th[t] \in Th /\ v \in Th
  BY PlaceField DEF TypeInv, PC
<1>2. v.pc = "iam" /\ v.fd = th[t].fd /\ v.cur = th[t].cur /\ v.nm = th[t].nm /\ v.found = th[t].found
  BY <1>1 DEF Th
<1> HIDE DEF Th
<1>3. /\ th[t].pc = "hello" /\ th' = [th EXCEPT ![t] = v]
      /\ UNCHANGED <<up, open, users, rec, db, database>>
  BY DEF Hello, Reads
<1> HIDE DEF v
<1>4. th'[t] = v
  BY <1>1, <1>3, OneThread DEF TypeInv
<1>5. ThreadQuiet(t)'
  BY <1>2, <1>3, <1>4 DEF Quiet, ThreadsQuiet, ThreadQuiet, InLogin, Us, Named, OffPC
<1>6. HandleQuiet'
  BY <1>1, <1>2, <1>3, HandleStays DEF Quiet
<1> QED
  BY <1>1, <1>2, <1>3, <1>5, <1>6, ThreadOnly DEF OffPC

(* The login's own record is the one its descriptor leads to. *)
LEMMA OwnUnlinked ==
  ASSUME TypeInv, Quiet, NEW t \in Thread, th[t].pc \in {"hello", "iam", "newpass", "pass"}
  PROVE  /\ ToSet(RemoveByFD(users, th[t].fd)) = Us \ {th[t].cur}
         /\ RemoveByFD(RemoveByFD(users, th[t].fd), th[t].fd) = RemoveByFD(users, th[t].fd)
<1> DEFINE f == th[t].fd
           s == RemoveByFD(users, f)
           c == th[t].cur
<1>1. /\ c \in Us /\ rec[c].fd = f /\ f # NoFd
      /\ \A r \in Us : rec[r].fd = f => r = c
  BY FirstServerAssumption
    DEF Quiet, ThreadsQuiet, ThreadQuiet, InLogin, ListQuiet, TypeInv, BasicTyped
<1>2. users \in Seq(Rec) /\ IsInjective(users)
  BY DEF TypeInv, ListTyped
<1>3. /\ s \in Seq(Rec) /\ IsInjective(s)
      /\ \/ s = users /\ \A r \in ToSet(users) : rec[r].fd # f
         \/ \E r \in ToSet(users) : rec[r].fd = f /\ ToSet(s) = ToSet(users) \ {r}
  BY <1>2, FdRemoved
<1>4. ToSet(s) = Us \ {c}
  BY <1>1, <1>3 DEF Us
<1>5. /\ RemoveByFD(s, f) = s
         \/ \E r \in ToSet(s) : rec[r].fd = f /\ ToSet(RemoveByFD(s, f)) = ToSet(s) \ {r}
  BY <1>3, FdRemoved
<1> QED
  BY <1>1, <1>4, <1>5

LEMMA RefuseQuiet ==
  ASSUME TypeInv, TypeInv', Quiet, ~Clashing, up, NEW t \in Thread,
         th[t].pc \in {"hello", "iam", "newpass", "pass"}, Refuse(t) \/ RefuseAtEnd(t)
  PROVE  Quiet' /\ UNCHANGED Chat!vars
<1> DEFINE c == th[t].cur
<1>1. th' = [th EXCEPT ![t] = Idle] /\ UNCHANGED <<up, open, rec, db, database>>
  BY DEF Refuse, RefuseAtEnd
<1>2. Us' = Us \ {c}
  BY OwnUnlinked DEF Refuse, RefuseAtEnd, Us
<1>3. c \in Own(t) /\ c \in Us /\ ~Named(c)
  BY UsRec, NoRecNotRec DEF Own, InLogin, Quiet, ThreadsQuiet, ThreadQuiet, TypeInv
<1>4. th'[t] = Idle /\ \A u \in Thread : u # t => th'[u] = th[u]
  BY <1>1, OneThread, IdleTyped DEF TypeInv
<1>5. ListQuiet'
  BY <1>1, <1>2 DEF Quiet, ListQuiet, Named
<1>6. ASSUME NEW u \in Thread, u # t PROVE ThreadQuiet(u)'
  <2>1. \A r \in Rec : r \notin Own(t) => rec'[r] = rec[r] /\ (r \in Us => r \in Us')
    BY <1>1, <1>2, <1>3
  <2>2. th[t].pc \notin OffPC /\ th[t].pc # "idle"
    BY DEF OffPC
  <2> QED
    BY <1>1, <1>2, <1>4, <1>6, <2>1, <2>2, Frame
<1>7. ThreadQuiet(t)'
  BY <1>4, IdleTyped DEF ThreadQuiet, InLogin, OffPC
<1>8. ApartQuiet'
  BY <1>4, IdleTyped, StaysApart DEF Quiet
<1>9. Visible' = Visible
  BY <1>1, <1>2, <1>3, <1>4, IdleTyped, VisibleKept
<1>10. DbQuiet' /\ UNCHANGED Chat!vars
  BY <1>1, <1>9, SameService
<1>11. HandleQuiet'
  BY <1>1, IdleTyped, HandleStays DEF Quiet
<1> QED
  BY <1>5, <1>6, <1>7, <1>8, <1>10, <1>11 DEF Quiet, ThreadsQuiet

LEMMA IamNewQuiet ==
  ASSUME TypeInv, TypeInv', Quiet, ~Clashing, up, NEW t \in Thread, NEW n \in Name, IamNew(t, n)
  PROVE  Quiet' /\ UNCHANGED Chat!vars
<1>1. th[t].pc = "iam"
  BY DEF IamNew, Reads
<1>2. CASE GetUser(n) # NoRec
  BY <1>1, <1>2, RefuseQuiet DEF IamNew
<1>3. CASE GetUser(n) = NoRec
  <2> DEFINE v == [th[t] EXCEPT !.pc = "newpass", !.nm = n]
  <2>1. th[t] \in Th /\ v \in Th
    BY PlaceField, NameField DEF TypeInv, PC
  <2>2. /\ v.pc = "newpass" /\ v.fd = th[t].fd /\ v.cur = th[t].cur /\ v.nm = n
        /\ v.found = th[t].found
    BY <2>1 DEF Th
  <2>3. NoRec \notin Us
    BY NoRecNotRec, UsRec DEF TypeInv
  <2>4. \A r \in Us : rec[r].name # n
    BY <1>3, <2>3, UserFound DEF TypeInv
  <2> HIDE DEF Th
  <2>5. th' = [th EXCEPT ![t] = v] /\ UNCHANGED <<up, open, users, rec, db, database>>
    BY <1>3 DEF IamNew
  <2> HIDE DEF v
  <2>6. th'[t] = v
    BY <2>1, <2>5, OneThread DEF TypeInv
  <2>7. ThreadQuiet(t)'
    BY <1>1, <2>2, <2>4, <2>5, <2>6 DEF Quiet, ThreadsQuiet, ThreadQuiet, InLogin, Us, Named, OffPC
  <2>8. HandleQuiet'
    BY <2>1, <2>2, <2>5, HandleStays DEF Quiet
  <2> QED
    BY <1>1, <2>1, <2>2, <2>5, <2>7, <2>8, ThreadOnly DEF OffPC
<1> QED
  BY <1>2, <1>3

LEMMA IamQuiet ==
  ASSUME TypeInv, TypeInv', Quiet, ~Clashing, up, NEW t \in Thread, NEW n \in Name, Iam(t, n)
  PROVE  Quiet' /\ UNCHANGED Chat!vars
<1> DEFINE g == GetUser(n)
<1>1. th[t].pc = "iam"
  BY DEF Iam, Reads
<1>2. CASE g = NoRec \/ rec[g].connected
  BY <1>1, <1>2, RefuseQuiet DEF Iam
<1>3. CASE ~(g = NoRec \/ rec[g].connected)
  <2> DEFINE v == [th[t] EXCEPT !.pc = "pass", !.nm = n, !.found = g]
  <2>1. g \in Us /\ g \in Rec /\ rec[g].name = n /\ Named(g) /\ ~rec[g].connected
    BY <1>3, UserFound, FirstServerAssumption DEF TypeInv, Named
  <2>2. th[t] \in Th /\ v \in Th
    BY <2>1, PlaceField, NamedField DEF TypeInv, PC
  <2>3. /\ v.pc = "pass" /\ v.fd = th[t].fd /\ v.cur = th[t].cur /\ v.nm = n
        /\ v.found = g
    BY <2>2 DEF Th
  <2> HIDE DEF Th
  <2>5. th' = [th EXCEPT ![t] = v] /\ UNCHANGED <<up, open, users, rec, db, database>>
    BY <1>3 DEF Iam
  <2> HIDE DEF v, g
  <2>6. th'[t] = v
    BY <2>2, <2>5, OneThread DEF TypeInv
  <2>7. ThreadQuiet(t)'
    BY <1>1, <2>1, <2>3, <2>5, <2>6 DEF Quiet, ThreadsQuiet, ThreadQuiet, InLogin, Us, Named, OffPC
  <2>8. HandleQuiet'
    BY <2>2, <2>3, <2>5, HandleStays DEF Quiet
  <2> QED
    BY <1>1, <2>2, <2>3, <2>5, <2>7, <2>8, ThreadOnly DEF OffPC
<1> QED
  BY <1>2, <1>3

LEMMA EnterQuiet ==
  ASSUME TypeInv, TypeInv', Quiet, ~Clashing, up, NEW t \in Thread, Enter(t)
  PROVE  Quiet' /\ UNCHANGED Chat!vars
<1> DEFINE r == GetUserByFD(rec[th[t].cur].fd)
           v == [Idle EXCEPT !.pc = "cmd", !.cur = r, !.fd = rec[r].fd]
<1>1. th[t].pc = "enter" /\ th[t].fd # NoFd
  BY FirstServerAssumption
    DEF Enter, Quiet, ThreadsQuiet, ThreadQuiet, TypeInv, BasicTyped
<1>2. PICK q \in {th[t].cur, th[t].found} : Serving(t, q)
  BY <1>1 DEF Quiet, ThreadsQuiet, ThreadQuiet
<1>3. rec[th[t].cur].fd = th[t].fd
  BY <1>1 DEF Quiet, ThreadsQuiet, ThreadQuiet, InLogin
<1>4. r = q /\ r \in Rec /\ rec[r].fd = th[t].fd
  BY <1>1, <1>2, <1>3, FdFound DEF Quiet, ListQuiet, Serving, TypeInv
<1>5. th[t].fd \in Fd \cup {NoFd}
  BY PCs DEF TypeInv
<1>6. v \in Th /\ v.pc = "cmd" /\ v.cur = q /\ v.fd = th[t].fd /\ r # NoRec
  BY <1>4, <1>5, FreshThread, NoRecNotRec DEF PC, Idle
<1>7. th' = [th EXCEPT ![t] = v] /\ UNCHANGED <<up, open, users, rec, db, database>>
  BY <1>6 DEF Enter
<1> HIDE DEF v, r, Th
<1>8. th'[t] = v
  BY <1>6, <1>7, OneThread DEF TypeInv
<1>9. Serving(t, q)'
  BY <1>2, <1>4, <1>6, <1>7, <1>8 DEF Serving, Us
<1>10. ThreadQuiet(t)'
  BY <1>1, <1>6, <1>7, <1>8, <1>9
    DEF Quiet, ThreadsQuiet, ThreadQuiet, InLogin, OffPC, Serving
<1>11. HandleQuiet'
  BY <1>6, <1>7, HandleStays DEF Quiet
<1> QED
  BY <1>1, <1>6, <1>7, <1>10, <1>11, ThreadOnly DEF OffPC

(* The account is not there for others before its insert. *)
LEMMA NewPassQuiet ==
  ASSUME TypeInv, TypeInv', Quiet, ~Clashing, up, NEW t \in Thread, NEW p \in Password, NewPass(t, p)
  PROVE  Quiet' /\ UNCHANGED Chat!vars
<1>1. th[t].pc = "newpass"
  BY DEF NewPass, Reads
<1>2. CASE p \notin Valid
  BY <1>1, <1>2, RefuseQuiet DEF NewPass
<1>3. CASE p \in Valid
  <2> DEFINE c == th[t].cur
             v == [th[t] EXCEPT !.pc = "save"]
             w == [rec[c] EXCEPT !.connected = TRUE, !.name = th[t].nm, !.password = p]
  <2>1. th[t] \in Th /\ v \in Th
    BY PlaceField DEF TypeInv, PC
  <2>2. v.pc = "save" /\ v.cur = c /\ v.fd = th[t].fd /\ v.found = th[t].found
    BY <2>1 DEF Th
  <2>3. /\ c \in Us /\ ~Named(c) /\ rec[c].fd = th[t].fd /\ th[t].found = NoRec
        /\ th[t].fd \in open /\ th[t].fd # NoFd
        /\ \A r \in Us : rec[r].name # th[t].nm
    BY <1>1, FirstServerAssumption
      DEF Quiet, ThreadsQuiet, ThreadQuiet, InLogin, TypeInv, BasicTyped
  <2>4. th[t].nm \in Name /\ th[t].nm # NoName /\ c \in Rec /\ c \in Own(t)
    BY <1>1, FirstServerAssumption, NoRecNotRec DEF TypeInv, LoginInv, InLogin, Own
  <2>5. rec[c] \in Record /\ p \in Password
    BY <2>4 DEF TypeInv, RecTyped
  <2>6. w \in Record /\ w.name = th[t].nm /\ w.connected = TRUE /\ w.fd = rec[c].fd
    BY <2>4, <2>5 DEF Record
  <2>7. /\ th' = [th EXCEPT ![t] = v] /\ rec' = [rec EXCEPT ![c] = w]
        /\ UNCHANGED <<up, open, users, db, database>>
    BY <1>3 DEF NewPass
  <2> HIDE DEF Th, Record, v, w, Rec
  <2>8. \A q \in Rec : rec'[q] = IF q = c THEN w ELSE rec[q]
    BY <2>6, <2>7, OneRecord DEF TypeInv
  <2>9. th'[t] = v /\ \A u \in Thread : u # t => th'[u] = th[u]
    BY <2>1, <2>7, OneThread DEF TypeInv
  <2>10. Us' = Us /\ Us \subseteq Rec
    BY <2>7, UsRec DEF Us, TypeInv
  <2>11. ListQuiet'
    BY <2>3, <2>4, <2>6, <2>7, <2>8, <2>10 DEF Quiet, ListQuiet, Named
  <2>12. ASSUME NEW u \in Thread, u # t PROVE ThreadQuiet(u)'
    <3>1. th[u].pc = "newpass" => th[u].nm # th[t].nm
      BY <1>1, <2>4, <2>12 DEF Clashing, InLogin
    <3>2. \A r \in Rec : r \notin Own(t) => rec'[r] = rec[r] /\ (r \in Us => r \in Us')
      BY <2>4, <2>8, <2>10
    <3>3. \A r \in Us' : /\ th[u].pc = "newpass" => \/ rec'[r].name = rec[r].name
                                                    \/ rec'[r].name # th[u].nm
                         /\ rec'[r].fd = rec[r].fd \/ rec'[r].fd = th[t].fd
      BY <2>3, <2>6, <2>8, <2>10, <3>1
    <3>4. th[t].pc \notin OffPC /\ th[t].pc # "idle" /\ open' = open /\ Us' \subseteq Us
      BY <1>1, <2>7, <2>10 DEF OffPC
    <3> QED
      BY <2>9, <2>12, <3>2, <3>3, <3>4, Frame
  <2>13. Serving(t, c)'
    BY <2>2, <2>3, <2>4, <2>6, <2>8, <2>9, <2>10 DEF Serving
  <2>14. ThreadQuiet(t)'
    BY <2>2, <2>3, <2>7, <2>9, <2>13 DEF ThreadQuiet, InLogin, OffPC, Serving
  <2>15. ApartQuiet'
    BY <1>1, <2>2, <2>9, StaysApart DEF Quiet
  <2>16. c \notin Visible
    BY <2>3 DEF Visible, Named
  <2>17. Visible' = Visible
    <3>1. \A r \in Us : r # c => rec'[r] = rec[r]
      BY <2>8, <2>10
    <3>2. c \notin Visible'
      BY <2>2, <2>9 DEF Visible
    <3>3. ASSUME NEW r \in Us, r # c PROVE r \in Visible' <=> r \in Visible
      <4>1. \A u \in Thread : (th'[u].pc \in {"save", "insert"} => th'[u].cur # r)
                                <=> (th[u].pc \in {"save", "insert"} => th[u].cur # r)
        BY <1>1, <2>2, <2>9, <3>3
      <4> QED
        BY <2>10, <3>1, <3>3, <4>1 DEF Visible, Us
    <3> QED
      BY <2>10, <2>16, <3>2, <3>3 DEF Visible, Us
  <2>18. \A r \in Visible : rec'[r] = rec[r]
    BY <2>8, <2>10, <2>16 DEF Visible, Us
  <2>19. DbQuiet' /\ UNCHANGED Chat!vars
    BY <2>7, <2>17, <2>18, SameService
  <2>20. HandleQuiet'
    BY <2>1, <2>2, <2>7, HandleStays DEF Quiet
  <2> QED
    BY <2>11, <2>12, <2>14, <2>15, <2>19, <2>20 DEF Quiet, ThreadsQuiet
<1> QED
  BY <1>2, <1>3

(* An account appears to the others: a new row, or no file to write it to. *)
LEMMA AccountAppears ==
  ASSUME TypeInv, TypeInv', Quiet, HandleQuiet', ~Clashing, up, NEW t \in Thread,
         NEW label \in {"close", "enter"},
         th[t].pc \in {"save", "insert"}, th' = [th EXCEPT ![t].pc = label],
         UNCHANGED <<up, open, users, rec>>,
         db' = IF HasAccounts /\ \A i \in DOMAIN db : db[i].name # rec[th[t].cur].name
                 THEN Append(db, [name |-> rec[th[t].cur].name,
                                  password |-> rec[th[t].cur].password])
                 ELSE db
  PROVE  Quiet' /\ \E n \in Name, p \in Valid, f \in Fd : Chat!Register(n, p, f)
<1> DEFINE c == th[t].cur
           n == rec[c].name
           p == rec[c].password
           f == rec[c].fd
           row == [name |-> n, password |-> p]
           v == [th[t] EXCEPT !.pc = label]
<1>1. /\ th[t].pc \in {"save", "insert"} /\ th' = [th EXCEPT ![t] = v] /\ UNCHANGED <<up, open, users, rec>>
      /\ db' = IF HasAccounts /\ \A i \in DOMAIN db : db[i].name # n
                 THEN Append(db, row) ELSE db
  OBVIOUS
<1>2. th[t] \in Th /\ v \in Th
  BY PlaceField DEF TypeInv, PC
<1>3. v.pc = label /\ v.cur = c /\ v.fd = th[t].fd /\ v.found = th[t].found
  BY <1>2 DEF Th
<1>4. /\ c \in Us /\ rec[c].connected /\ f = th[t].fd /\ th[t].found = NoRec
      /\ f # NoFd /\ f \in open /\ f \in Fd
  BY <1>1, FirstServerAssumption
    DEF Quiet, ThreadsQuiet, ThreadQuiet, InLogin, TypeInv, BasicTyped, Serving
<1>5. n \in Name /\ p \in Valid /\ Named(c)
  BY <1>1, FirstServerAssumption DEF TypeInv, LoginInv, Named
<1> HIDE DEF Th, v
<1>6. th'[t] = v /\ \A u \in Thread : u # t => th'[u] = th[u]
  BY <1>1, <1>2, OneThread DEF TypeInv
<1>7. Us' = Us /\ ListQuiet'
  BY <1>1 DEF Us, Quiet, ListQuiet, Named
<1>8. ASSUME NEW u \in Thread, u # t PROVE ThreadQuiet(u)'
  BY <1>1, <1>6, <1>7, <1>8, Frame DEF OffPC
<1>9. ThreadQuiet(t)'
  BY <1>1, <1>3, <1>4, <1>6, <1>7 DEF ThreadQuiet, InLogin, OffPC, Serving
<1>10. ApartQuiet'
  BY <1>1, <1>3, <1>6, StaysApart DEF Quiet
<1>11. c \notin Visible
  BY <1>1 DEF Visible
<1>12. Visible' = Visible \cup {c}
  <2>1. \A u \in Thread : u # t => th'[u] = th[u] /\ (th[u].pc \in {"save", "insert"} => th[u].cur # c)
    BY <1>1, <1>6 DEF TypeInv, LoginInv, InLogin
  <2>2. c \in Visible'
    BY <1>1, <1>3, <1>4, <1>5, <1>6, <1>7, <2>1 DEF Visible, Us, Named
  <2>3. ASSUME NEW r \in Us, r # c PROVE r \in Visible' <=> r \in Visible
    <3>1. \A u \in Thread : (th'[u].pc \in {"save", "insert"} => th'[u].cur # r)
                              <=> (th[u].pc \in {"save", "insert"} => th[u].cur # r)
      BY <1>1, <1>3, <1>6, <2>3
    <3> QED
      BY <1>1, <2>3, <3>1 DEF Visible, Us
  <2> QED
    BY <1>4, <1>7, <2>2, <2>3 DEF Visible, Us
<1>13. AccountsIn(Visible', rec') = AccountsIn(Visible, rec) \cup {row}
  BY <1>1, <1>12 DEF AccountsIn
<1>14. \A r \in Visible : rec[r].name # n /\ rec[r].fd # f
  BY <1>4, <1>5, <1>11 DEF Quiet, ListQuiet, Visible, Us, Named
<1>15. \A a \in AccountsIn(Visible, rec) : a.name # n
  BY <1>14 DEF AccountsIn
<1>16. DbQuiet'
  <2>1. CASE HasAccounts
    <3>1. ToSet(db) = AccountsIn(Visible, rec)
      BY <2>1 DEF Quiet, DbQuiet
    <3>2. \A i \in DOMAIN db : db[i] \in ToSet(db)
      BY DEF ToSet
    <3>3. db' = Append(db, row)
      BY <1>1, <1>15, <2>1, <3>1, <3>2
    <3>4. db \in Seq(Row)
      BY DEF TypeInv, DbTyped
    <3>5. /\ DOMAIN Append(db, row) = DOMAIN db \cup {Len(db) + 1}
          /\ Append(db, row)[Len(db) + 1] = row
          /\ \A i \in DOMAIN db : Append(db, row)[i] = db[i] /\ i # Len(db) + 1
      BY <3>4
    <3>6. ToSet(Append(db, row)) = ToSet(db) \cup {row}
      BY <3>5 DEF ToSet
    <3> QED
      BY <1>13, <2>1, <3>1, <3>3, <3>6 DEF DbQuiet
  <2>2. CASE ~HasAccounts
    BY <1>1, <2>2 DEF Quiet, DbQuiet
  <2> QED
    BY <2>1, <2>2
<1>17. Accounts = AccountsIn(Visible, rec) /\ Accounts' = Accounts \cup {row}
  BY <1>1, <1>13, AccountsAre
<1>18. NamesApart(Visible, rec) /\ NamesApart(Visible', rec)
  <2>1. NamesApart(Visible, rec)
    BY VisibleApart DEF Quiet
  <2> QED
    BY <1>12, <1>14, <2>1 DEF NamesApart
<1>19. Session' = [Session EXCEPT ![n] = f]
  <2>1. SessionIn(Visible', rec) = [SessionIn(Visible, rec) EXCEPT ![n] = f]
    <3> DEFINE g == rec
    <3>1. c \in Visible' /\ Visible \ {c} = Visible' \ {c}
      BY <1>12
    <3> QED
      BY <1>4, <1>5, <1>18, <3>1, OneSession
  <2> QED
    BY <1>1, <2>1, SessionIs
<1>20. f \notin Chat!InUse
  <2>1. ASSUME NEW m \in Name PROVE Session[m] # f
    <3>1. CASE \E r \in Visible : rec[r].name = m /\ rec[r].connected
      BY <1>14, <1>18, <3>1, SessionAt, SessionIs
    <3>2. CASE ~\E r \in Visible : rec[r].name = m /\ rec[r].connected
      BY <1>4, <1>18, <3>2, SessionAt, SessionIs
    <3> QED
      BY <3>1, <3>2
  <2> QED
    BY <2>1 DEF Chat!InUse
<1>21. Chat!Register(n, p, f)
  BY <1>15, <1>17, <1>19, <1>20 DEF Chat!Register, Chat!HasAccount
<1>22. Quiet'
  BY <1>7, <1>8, <1>9, <1>10, <1>16 DEF Quiet, ThreadsQuiet
<1> QED
  BY <1>4, <1>5, <1>21, <1>22

LEMMA OpenQuiet ==
  ASSUME TypeInv, TypeInv', Quiet, ~Clashing, up, NEW t \in Thread, OpenDatabase(t)
  PROVE  /\ Quiet'
         /\ \/ UNCHANGED Chat!vars
            \/ \E n \in Name, p \in Valid, f \in Fd : Chat!Register(n, p, f)
<1>1. th[t].pc = "save" /\ UNCHANGED <<up, open, users, rec, db>>
  BY DEF OpenDatabase
<1>2. CASE HasAccounts
  <2> DEFINE v == [th[t] EXCEPT !.pc = "insert"]
  <2>1. th[t] \in Th /\ v \in Th
    BY PlaceField DEF TypeInv, PC
  <2>2. /\ v.pc = "insert" /\ v.fd = th[t].fd /\ v.cur = th[t].cur /\ v.nm = th[t].nm
        /\ v.found = th[t].found
    BY <2>1 DEF Th
  <2>3. th' = [th EXCEPT ![t] = v] /\ database' = "open"
    BY <1>2 DEF OpenDatabase
  <2> HIDE DEF Th, v
  <2>4. th'[t] = v
    BY <2>1, <2>3, OneThread DEF TypeInv
  <2>5. ThreadQuiet(t)'
    BY <1>1, <2>2, <2>4 DEF Quiet, ThreadsQuiet, ThreadQuiet, Serving, InLogin, Us, OffPC
  <2>6. HandleQuiet'
    BY <1>2, <2>3 DEF HandleQuiet
  <2> QED
    BY <1>1, <2>1, <2>2, <2>3, <2>5, <2>6, ThreadOnly DEF OffPC
<1>3. CASE ~HasAccounts
  <2>1. th' = [th EXCEPT ![t].pc = "enter"] /\ UNCHANGED database
    BY <1>3 DEF OpenDatabase
  <2>2. \A u \in Thread : ~(AtDatabase(u)')
    <3>1. th'[t].pc = "enter" /\ \A u \in Thread : u # t => th'[u] = th[u]
      BY <2>1 DEF TypeInv, ThTyped, Th
    <3> QED
      BY <1>3, <3>1 DEF Quiet, HandleQuiet, AtDatabase
  <2>3. HandleQuiet'
    BY <2>2 DEF HandleQuiet
  <2> QED
    BY <1>1, <1>3, <2>1, <2>3, AccountAppears
<1> QED
  BY <1>2, <1>3

(* A thread at the database is the only one. *)
LEMMA AloneAtDatabase ==
  ASSUME Quiet, ~Clashing, NEW t \in Thread, AtDatabase(t)
  PROVE  /\ HasAccounts /\ database = "open"
         /\ \A u \in Thread \ {t} : ~AtDatabase(u)
BY DEF Quiet, HandleQuiet, Clashing, AtDatabase, InLogin

LEMMA InsertQuiet ==
  ASSUME TypeInv, TypeInv', Quiet, ~Clashing, up, NEW t \in Thread, Insert(t)
  PROVE  Quiet' /\ \E n \in Name, p \in Valid, f \in Fd : Chat!Register(n, p, f)
<1>1. /\ th[t].pc = "insert" /\ th' = [th EXCEPT ![t].pc = "close"]
      /\ UNCHANGED <<up, open, users, rec, database>>
  BY DEF Insert
<1>2. /\ HasAccounts /\ database = "open"
      /\ \A u \in Thread \ {t} : ~AtDatabase(u)
  BY <1>1, AloneAtDatabase DEF AtDatabase
<1>3. db' = IF HasAccounts /\ \A i \in DOMAIN db : db[i].name # rec[th[t].cur].name
              THEN Append(db, [name |-> rec[th[t].cur].name,
                               password |-> rec[th[t].cur].password])
              ELSE db
  BY <1>2 DEF Insert
<1>4. HandleQuiet'
  BY <1>1, <1>2 DEF HandleQuiet
<1> QED
  BY <1>1, <1>3, <1>4, AccountAppears

LEMMA CloseQuiet ==
  ASSUME TypeInv, TypeInv', Quiet, ~Clashing, up, NEW t \in Thread, CloseDatabase(t)
  PROVE  Quiet' /\ UNCHANGED Chat!vars
<1> DEFINE v == [th[t] EXCEPT !.pc = "enter"]
<1>1. th[t] \in Th /\ v \in Th
  BY PlaceField DEF TypeInv, PC
<1>2. v.pc = "enter" /\ v.fd = th[t].fd /\ v.cur = th[t].cur /\ v.found = th[t].found
  BY <1>1 DEF Th
<1>3. /\ th[t].pc = "close" /\ th' = [th EXCEPT ![t] = v]
      /\ UNCHANGED <<up, open, users, rec, db>>
  BY DEF CloseDatabase
<1> HIDE DEF Th, v
<1>4. th'[t] = v /\ \A u \in Thread : u # t => th'[u] = th[u]
  BY <1>1, <1>3, OneThread DEF TypeInv
<1>5. ThreadQuiet(t)'
  BY <1>2, <1>3, <1>4 DEF Quiet, ThreadsQuiet, ThreadQuiet, Serving, InLogin, Us, OffPC
<1>6. HandleQuiet'
  <2>1. \A u \in Thread \ {t} : ~AtDatabase(u)
    BY <1>3, AloneAtDatabase DEF AtDatabase
  <2> QED
    BY <1>2, <1>4, <2>1 DEF HandleQuiet, AtDatabase
<1> QED
  BY <1>1, <1>2, <1>3, <1>5, <1>6, ThreadOnly DEF OffPC

LEMMA PassQuiet ==
  ASSUME TypeInv, TypeInv', Quiet, ~Clashing, up, NEW t \in Thread, NEW pw \in Password, Pass(t, pw)
  PROVE  /\ Quiet'
         /\ UNCHANGED Chat!vars \/ \E n \in Name, f \in Fd : Chat!Login(n, f)
<1> DEFINE c == th[t].cur
           g == th[t].found
           f == th[t].fd
           n == th[t].nm
           v == [th[t] EXCEPT !.pc = "enter"]
           w == [rec[g] EXCEPT !.connected = TRUE, !.fd = rec[c].fd]
<1>1. th[t].pc = "pass" /\ InLogin(t)
  BY DEF Pass, Reads, InLogin
<1>2. CASE pw # rec[g].password
  BY <1>1, <1>2, RefuseQuiet DEF Pass
<1>3. CASE pw = rec[g].password
  <2>1. th[t] \in Th /\ v \in Th
    BY PlaceField DEF TypeInv, PC
  <2>2. v.pc = "enter" /\ v.cur = c /\ v.fd = f /\ v.found = g
    BY <2>1 DEF Th
  <2>3. /\ c \in Us /\ ~Named(c) /\ rec[c].fd = f /\ f \in open /\ f \in Fd /\ f # NoFd
        /\ g \in Us /\ Named(g) /\ rec[g].name = n /\ ~rec[g].connected
    BY <1>1, FirstServerAssumption
      DEF Quiet, ThreadsQuiet, ThreadQuiet, TypeInv, BasicTyped
  <2>4. Us \subseteq Rec /\ NoRec \notin Rec
    BY UsRec, NoRecNotRec DEF TypeInv
  <2>5. rec[g] \in Record /\ n \in Name
    <3>1. rec[g] \in Record /\ n \in Name \cup {NoName}
      BY <2>3, <2>4, PCs DEF TypeInv, RecTyped
    <3> QED
      BY <2>3, <3>1 DEF Named
  <2>6. /\ w.name = n /\ w.connected = TRUE /\ w.fd = f /\ w.password = rec[g].password
        /\ w \in Record
    BY <2>3, <2>5 DEF Record
  <2>7. /\ users' = RemoveByFD(users, f) /\ UNCHANGED <<up, open, db, database>>
        /\ rec' = [rec EXCEPT ![g] = w] /\ th' = [th EXCEPT ![t] = v]
    BY <1>3 DEF Pass
  <2>8. Us' = Us \ {c} /\ c # g
    BY <1>1, <2>3, <2>7, OwnUnlinked DEF Us
  <2> HIDE DEF Th, Record, v, w, Rec
  <2>9. \A q \in Rec : rec'[q] = IF q = g THEN w ELSE rec[q]
    BY <2>6, <2>7, OneRecord DEF TypeInv
  <2>10. th'[t] = v /\ \A u \in Thread : u # t => th'[u] = th[u]
    BY <2>1, <2>7, OneThread DEF TypeInv
  <2>11. Own(t) = {c, g}
    BY <1>1, <2>3, <2>4 DEF Own
  <2>12. \A r \in Us : rec[r].fd = f => r = c
    BY <2>3 DEF Quiet, ListQuiet
  <2>13. ListQuiet'
    <3>1. g \in Us' /\ \A r \in Us' : r \in Us /\ r # c /\ r \in Rec
      BY <2>3, <2>4, <2>8
    <3>2. rec'[g] = w /\ \A r \in Us' : r # g => rec'[r] = rec[r] /\ rec[r].fd # f
      BY <2>9, <2>12, <3>1
    <3>3. /\ \A r \in Us' : rec'[r].name = rec[r].name
          /\ \A r \in Us' : r # g => rec'[r] = rec[r] /\ rec'[r].fd # f
      BY <2>3, <2>6, <3>1, <3>2
    <3>4. rec'[g].fd = f /\ rec'[g].name = n /\ n # NoName
      BY <2>3, <2>6, <3>2 DEF Named
    <3> QED
      BY <2>3, <2>7, <3>1, <3>3, <3>4 DEF Quiet, ListQuiet, Named
  <2>14. ASSUME NEW u \in Thread, u # t PROVE ThreadQuiet(u)'
    <3>1. \A r \in Rec : r \notin Own(t) => rec'[r] = rec[r] /\ (r \in Us => r \in Us')
      BY <2>8, <2>9, <2>11
    <3>2. \A r \in Us' : rec'[r].name = rec[r].name /\ (rec'[r].fd = rec[r].fd \/ rec'[r].fd = f)
      BY <2>3, <2>4, <2>6, <2>8, <2>9
    <3>3. th[t].pc \notin OffPC /\ th[t].pc # "idle" /\ open' = open /\ Us' \subseteq Us
      BY <1>1, <2>7, <2>8 DEF OffPC
    <3> QED
      BY <2>10, <2>14, <3>1, <3>2, <3>3, Frame
  <2>15. rec'[c] = rec[c] /\ rec'[g] = w /\ g \in Us'
    BY <2>3, <2>4, <2>8, <2>9
  <2>16. ThreadQuiet(t)'
    <3>1. th'[t].pc = "enter" /\ th'[t].cur = c /\ th'[t].fd = f /\ th'[t].found = g
      BY <2>2, <2>10
    <3>2. Serving(t, th[t].found)' /\ ~(Named(th[t].cur)')
      BY <2>3, <2>6, <2>15, <3>1 DEF Serving, Named
    <3>3. rec'[th'[t].cur].fd = th'[t].fd /\ th'[t].fd \in open'
      BY <2>3, <2>7, <2>15, <3>1
    <3> QED
      BY <3>1, <3>2, <3>3 DEF ThreadQuiet, InLogin, OffPC, Serving, Named
  <2>17. ApartQuiet'
    BY <1>1, <2>2, <2>10, StaysApart DEF Quiet
  <2>18. Visible' = Visible
    <3>1. \A r \in Us : rec'[r].name = rec[r].name /\ (Named(r) => r \in Us')
      BY <2>3, <2>4, <2>6, <2>8, <2>9
    <3> QED
      BY <1>1, <2>2, <2>8, <2>10, <3>1, VisibleKept
  <2>19. g \in Visible
    <3>1. ASSUME NEW u \in Thread, th[u].pc \in {"save", "insert"} PROVE th[u].cur # g
      BY <2>3, <3>1 DEF Quiet, ThreadsQuiet, ThreadQuiet, Serving
    <3> QED
      BY <2>3, <3>1 DEF Visible, Us, Named
  <2>20. Visible \subseteq Us /\ c \notin Visible
    BY <2>3 DEF Visible, Us, Named
  <2>21. AccountsIn(Visible', rec') = AccountsIn(Visible, rec)
    <3>1. \A r \in Visible : rec'[r].name = rec[r].name /\ rec'[r].password = rec[r].password
      BY <2>3, <2>4, <2>6, <2>9, <2>20
    <3> QED
      BY <2>18, <3>1 DEF AccountsIn
  <2>22. DbQuiet' /\ Accounts = AccountsIn(Visible, rec) /\ Accounts' = Accounts
    BY <2>7, <2>21, AccountsAre DEF Quiet, DbQuiet
  <2>23. NamesApart(Visible, rec) /\ NamesApart(Visible', rec')
    <3>1. NamesApart(Visible, rec)
      BY VisibleApart DEF Quiet
    <3>2. \A r \in Visible : rec'[r].name = rec[r].name
      BY <2>3, <2>4, <2>6, <2>9, <2>20
    <3> QED
      BY <2>18, <3>1, <3>2 DEF NamesApart
  <2>24. Session' = [Session EXCEPT ![n] = f]
    <3>1. \A s \in Visible \ {g} : rec'[s] = rec[s]
      BY <2>4, <2>9, <2>20
    <3>2. SessionIn(Visible', rec') = [SessionIn(Visible, rec) EXCEPT ![n] = f]
      BY <2>3, <2>5, <2>6, <2>15, <2>18, <2>19, <2>23, <3>1, OneSession
    <3> QED
      BY <3>2, SessionIs
  <2>25. Session[n] = NoFd
    <3>1. \A r \in Visible : ~(rec[r].name = n /\ rec[r].connected)
      BY <2>3, <2>19, <2>23 DEF NamesApart
    <3> QED
      BY <2>5, <2>23, <3>1, SessionAt, SessionIs
  <2>26. f \notin Chat!InUse
    <3>1. ASSUME NEW m \in Name PROVE Session[m] # f
      <4>1. CASE \E r \in Visible : rec[r].name = m /\ rec[r].connected
        <5>1. PICK r \in Visible : rec[r].name = m /\ rec[r].connected
          BY <4>1
        <5>2. rec[r].fd # f
          BY <2>12, <2>20
        <5> QED
          BY <2>23, <5>1, <5>2, SessionAt, SessionIs
      <4>2. CASE ~\E r \in Visible : rec[r].name = m /\ rec[r].connected
        BY <2>3, <2>23, <4>2, SessionAt, SessionIs
      <4> QED
        BY <4>1, <4>2
    <3> QED
      BY <3>1 DEF Chat!InUse
  <2>27. Chat!HasAccount(n)
    <3>1. [name |-> rec[g].name, password |-> rec[g].password] \in Accounts
      BY <2>19, <2>22 DEF AccountsIn
    <3> QED
      BY <2>3, <3>1 DEF Chat!HasAccount
  <2>28. Chat!Login(n, f)
    BY <2>22, <2>24, <2>25, <2>26, <2>27 DEF Chat!Login
  <2>29. HandleQuiet'
    BY <2>1, <2>2, <2>7, HandleStays DEF Quiet
  <2>30. Quiet'
    BY <2>13, <2>14, <2>16, <2>17, <2>22, <2>29 DEF Quiet, ThreadsQuiet
  <2> QED
    BY <2>3, <2>5, <2>28, <2>30
<1> QED
  BY <1>2, <1>3

(* A session ends with disconnectUser's first write. *)
LEMMA SessionEnds ==
  ASSUME TypeInv, TypeInv', Quiet, ~Clashing, up, NEW t \in Thread, NEW label \in OffPC,
         th[t].pc = "cmd", DisconnectUser(t, th[t].cur, label)
  PROVE  Quiet' /\ \E n \in Name : Chat!Logout(n)
<1> DEFINE c == th[t].cur
           n == rec[c].name
           v == [th[t] EXCEPT !.pc = label, !.found = c]
           w == [rec[c] EXCEPT !.connected = FALSE]
<1>1. /\ rec' = [rec EXCEPT ![c] = w] /\ th' = [th EXCEPT ![t] = v]
      /\ UNCHANGED <<up, open, users, db, database>>
  BY DEF DisconnectUser
<1>2. /\ c \in Us /\ rec[c].connected /\ rec[c].fd = th[t].fd /\ th[t].fd \in open
      /\ th[t].fd # NoFd /\ Named(c)
  BY FirstServerAssumption
    DEF Quiet, ListQuiet, ThreadsQuiet, ThreadQuiet, TypeInv, BasicTyped, Serving
<1>3. Us \subseteq Rec
  BY UsRec DEF TypeInv
<1>4. th[t] \in Th /\ v \in Th
  BY <1>2, <1>3, PlaceField, FoundField DEF TypeInv, PC, OffPC
<1>5. v.pc = label /\ v.found = c /\ v.fd = th[t].fd
  BY <1>4 DEF Th
<1>6. rec[c] \in Record /\ n \in Name
  <2>1. rec[c] \in Record
    BY <1>2, <1>3 DEF TypeInv, RecTyped
  <2> QED
    BY <1>2, <2>1 DEF Record, Named
<1>7. /\ w.name = n /\ w.connected = FALSE /\ w.fd = rec[c].fd
      /\ w.password = rec[c].password /\ w \in Record
  BY <1>6 DEF Record
<1> HIDE DEF Th, Record, v, w, Rec
<1>8. \A q \in Rec : rec'[q] = IF q = c THEN w ELSE rec[q]
  BY <1>1, <1>7, OneRecord DEF TypeInv
<1>9. th'[t] = v /\ \A u \in Thread : u # t => th'[u] = th[u]
  BY <1>1, <1>4, OneThread DEF TypeInv
<1>10. Us' = Us /\ Own(t) = {c} /\ th[t].pc \notin OffPC
  BY <1>1 DEF Us, Own, InLogin, OffPC
<1>11. \A r \in Us : /\ rec'[r].name = rec[r].name /\ rec'[r].fd = rec[r].fd
                     /\ rec'[r].password = rec[r].password
                     /\ rec'[r].connected => rec[r].connected
                     /\ r # c => rec'[r] = rec[r]
  BY <1>3, <1>7, <1>8
<1>12. ListQuiet'
  BY <1>1, <1>10, <1>11 DEF Quiet, ListQuiet, Named
<1>13. ASSUME NEW u \in Thread, u # t PROVE ThreadQuiet(u)'
  <2>1. \A r \in Rec : r \notin Own(t) => rec'[r] = rec[r] /\ (r \in Us => r \in Us')
    BY <1>8, <1>10
  <2> QED
    BY <1>1, <1>9, <1>10, <1>11, <1>13, <2>1, Frame
<1>14. ThreadQuiet(t)'
  <2>1. rec'[c] = w /\ \A r \in Us' : rec'[r].fd = th[t].fd => r = c
    BY <1>2, <1>3, <1>8, <1>10, <1>11 DEF Quiet, ListQuiet
  <2>2. th'[t].pc \in OffPC /\ th'[t].found = c /\ th'[t].fd = th[t].fd
    BY <1>5, <1>9
  <2> QED
    BY <1>1, <1>2, <1>7, <1>10, <2>1, <2>2 DEF ThreadQuiet, InLogin, OffPC
<1>15. ApartQuiet'
  BY <1>5, <1>9, StaysApart DEF Quiet
<1>16. Visible' = Visible /\ Visible \subseteq Us
  <2>1. th'[t].pc \notin {"save", "insert"}
    BY <1>5, <1>9 DEF OffPC
  <2> QED
    BY <1>9, <1>10, <1>11, <2>1, VisibleKept DEF Visible, Us
<1>17. c \in Visible
  <2>1. ASSUME NEW u \in Thread, th[u].pc \in {"save", "insert"} PROVE th[u].cur # c
    <3>1. th[u].fd # th[t].fd /\ rec[th[u].cur].fd = th[u].fd
      BY <2>1 DEF Quiet, ApartQuiet, ThreadsQuiet, ThreadQuiet, Serving
    <3> QED
      BY <1>2, <3>1
  <2> QED
    BY <1>2, <2>1 DEF Visible, Us, Named
<1>18. AccountsIn(Visible', rec') = AccountsIn(Visible, rec)
  BY <1>11, <1>16 DEF AccountsIn
<1>19. DbQuiet' /\ Accounts' = Accounts
  BY <1>1, <1>18, AccountsAre DEF Quiet, DbQuiet
<1>20. NamesApart(Visible, rec) /\ NamesApart(Visible', rec')
  <2>1. NamesApart(Visible, rec)
    BY VisibleApart DEF Quiet
  <2> QED
    BY <1>11, <1>16, <2>1 DEF NamesApart
<1>21. Session' = [Session EXCEPT ![n] = NoFd]
  <2>1. rec'[c].name = n /\ ~rec'[c].connected
    BY <1>2, <1>3, <1>7, <1>8
  <2>2. \A s \in Visible \ {c} : rec'[s] = rec[s]
    BY <1>11, <1>16
  <2>3. SessionIn(Visible', rec') = [SessionIn(Visible, rec) EXCEPT ![n] = NoFd]
    BY <1>6, <1>16, <1>17, <1>20, <2>1, <2>2, OneSession
  <2> QED
    BY <2>3, SessionIs
<1>22. Session[n] # NoFd
  BY <1>2, <1>6, <1>17, <1>20, SessionAt, SessionIs
<1>23. Chat!Logout(n)
  BY <1>19, <1>21, <1>22 DEF Chat!Logout
<1>24. HandleQuiet'
  BY <1>1, <1>4, <1>5, HandleStays DEF Quiet, OffPC
<1> QED
  BY <1>6, <1>12, <1>13, <1>14, <1>15, <1>19, <1>23, <1>24 DEF Quiet, ThreadsQuiet

LEMMA ByeQuiet ==
  ASSUME TypeInv, TypeInv', Quiet, ~Clashing, up, NEW t \in Thread, Bye(t)
  PROVE  Quiet' /\ \E n \in Name : Chat!Logout(n)
<1>1. th[t].pc = "cmd"
  BY DEF Bye, Reads
<1>2. /\ th[t].cur \in Us /\ rec[th[t].cur].fd = th[t].fd /\ th[t].fd # NoFd
  BY <1>1, FirstServerAssumption
    DEF Quiet, ThreadsQuiet, ThreadQuiet, TypeInv, BasicTyped, Serving
<1>3. GetUserByFD(th[t].fd) = th[t].cur /\ th[t].cur # NoRec
  BY <1>2, FdFound, NoRecNotRec DEF Quiet, ListQuiet, TypeInv
<1>4. DisconnectUser(t, th[t].cur, "offBye")
  BY <1>3 DEF Bye
<1> QED
  BY <1>1, <1>4, SessionEnds DEF OffPC

(* A login that vanishes takes some nameless record, its own or another's. *)
LEMMA LoginVanishes ==
  ASSUME TypeInv, TypeInv', Quiet, ~Clashing, ~Clashing', up, NEW t \in Thread,
         NEW r \in Us, ~Named(r), th[t].pc \in {"hello", "iam", "newpass", "pass"},
         DisconnectUser(t, r, "off")
  PROVE  Quiet' /\ UNCHANGED Chat!vars
<1> DEFINE v == [th[t] EXCEPT !.pc = "off", !.found = r]
           w == [rec[r] EXCEPT !.connected = FALSE]
<1>1. /\ rec' = [rec EXCEPT ![r] = w] /\ th' = [th EXCEPT ![t] = v]
      /\ UNCHANGED <<up, open, users, db, database>>
  BY DEF DisconnectUser
<1>2. Us \subseteq Rec
  BY UsRec DEF TypeInv
<1>3. th[t] \in Th /\ v \in Th
  BY <1>2, PlaceField, FoundField DEF TypeInv, PC
<1>4. v.pc = "off" /\ v.found = r /\ v.fd = th[t].fd
  BY <1>3 DEF Th
<1>5. rec[r] \in Record
  BY <1>2 DEF TypeInv, RecTyped
<1>6. /\ w.name = rec[r].name /\ w.connected = FALSE /\ w.fd = rec[r].fd
      /\ w.password = rec[r].password /\ w \in Record
  BY <1>5 DEF Record
<1>7. ~rec[r].connected
  BY DEF Quiet, ListQuiet
<1> HIDE DEF Th, Record, v, w, Rec
<1>8. \A q \in Rec : rec'[q] = IF q = r THEN w ELSE rec[q]
  BY <1>1, <1>6, OneRecord DEF TypeInv
<1>9. th'[t] = v /\ \A u \in Thread : u # t => th'[u] = th[u]
  BY <1>1, <1>3, OneThread DEF TypeInv
<1>10. Us' = Us
  BY <1>1 DEF Us
<1>11. \A q \in Rec : /\ rec'[q].name = rec[q].name /\ rec'[q].fd = rec[q].fd
                      /\ rec'[q].password = rec[q].password
                      /\ q # r => rec'[q] = rec[q]
  BY <1>6, <1>8
<1>12. ~rec'[r].connected
  BY <1>2, <1>6, <1>8
<1>13. ListQuiet'
  BY <1>1, <1>2, <1>10, <1>11, <1>12 DEF Quiet, ListQuiet, Named
<1>14. ASSUME NEW u \in Thread, u # t PROVE ThreadQuiet(u)'
  <2>1. ThreadQuiet(u) /\ Own(u) \subseteq Rec
    BY OwnRec DEF Quiet, ThreadsQuiet
  <2>2. th'[u] = th[u] /\ th'[t].pc = "off" /\ th'[t].found = r
    BY <1>4, <1>9, <1>14
  <2>3. InLogin(u) => r \notin Own(u)
    BY <1>14, <2>2 DEF Clashing, InLogin, Own
  <2>4. th[u].pc = "cmd" => r \notin Own(u)
    BY <1>7, <2>1 DEF ThreadQuiet, Serving, Own, InLogin
  <2>5. \A q \in Own(u) : rec'[q].connected = rec[q].connected
    <3>1. CASE r \notin Own(u)
      BY <1>11, <2>1, <3>1
    <3>2. CASE r \in Own(u)
      <4>1. th[u].pc \in OffPC
        BY <2>3, <2>4, <3>2 DEF Own
      <4>2. Own(u) = {r} /\ rec[r].connected = FALSE
        <5>1. Own(u) = {r}
          BY <3>2, <4>1 DEF Own, OffPC, InLogin
        <5>2. rec[r].connected \in BOOLEAN
          BY <1>5 DEF Record
        <5> QED
          BY <1>7, <5>1, <5>2
      <4> QED
        BY <1>2, <1>6, <1>8, <4>2
    <3> QED
      BY <3>1, <3>2
  <2>6. th[u].pc = "newpass" => \A q \in Us' : rec'[q].name # th[u].nm
    BY <1>2, <1>10, <1>11, <2>1 DEF ThreadQuiet
  <2>7. th[u].pc = "offBye" => \A q \in Us' : rec'[q].fd = th[u].fd => q = th[u].found
    BY <1>2, <1>10, <1>11, <2>1 DEF ThreadQuiet
  <2>8. th[u].pc # "idle" => th[u].fd \in open'
    BY <1>1, <2>1 DEF ThreadQuiet
  <2> QED
    BY <1>10, <1>11, <2>1, <2>2, <2>5, <2>6, <2>7, <2>8, OtherQuiet
<1>15. ThreadQuiet(t)'
  <2>1. th[t].fd \in open
    BY DEF Quiet, ThreadsQuiet, ThreadQuiet
  <2> QED
    BY <1>1, <1>4, <1>9, <1>10, <1>12, <2>1 DEF ThreadQuiet, InLogin, OffPC
<1>16. ApartQuiet'
  BY <1>4, <1>9, StaysApart DEF Quiet
<1>17. Visible' = Visible /\ Visible \subseteq Us /\ r \notin Visible
  BY <1>2, <1>4, <1>9, <1>10, <1>11, VisibleKept DEF Visible, Us, Named
<1>18. DbQuiet' /\ UNCHANGED Chat!vars
  BY <1>1, <1>2, <1>11, <1>17, SameService
<1>19. HandleQuiet'
  BY <1>1, <1>3, <1>4, HandleStays DEF Quiet
<1> QED
  BY <1>13, <1>14, <1>15, <1>16, <1>18, <1>19 DEF Quiet, ThreadsQuiet

LEMMA CrashQuiet ==
  ASSUME TypeInv, TypeInv', Quiet, ~Clashing, ~Clashing', up, NEW t \in Thread, Crash(t)
  PROVE  Quiet' /\ (UNCHANGED Chat!vars \/ \E n \in Name : Chat!Logout(n))
<1> DEFINE hit == GetUser(rec[th[t].cur].name)
<1>1. /\ th[t].pc \in {"hello", "iam", "newpass", "pass", "cmd"}
      /\ DisconnectUser(t, IF hit = NoRec THEN th[t].cur ELSE hit, "off")
  BY DEF Crash
<1>2. th[t].cur \in Us
  BY <1>1 DEF Quiet, ThreadsQuiet, ThreadQuiet, Serving
<1>3. hit \in Us /\ hit # NoRec /\ rec[hit].name = rec[th[t].cur].name
  BY <1>2, UserFound, NoRecNotRec DEF TypeInv
<1>4. DisconnectUser(t, hit, "off")
  BY <1>1, <1>3
<1> HIDE DEF hit
<1>5. CASE th[t].pc = "cmd"
  <2>1. Named(th[t].cur)
    BY <1>5 DEF Quiet, ListQuiet, ThreadsQuiet, ThreadQuiet, Serving
  <2>2. hit = th[t].cur
    BY <1>2, <1>3, <2>1 DEF Quiet, ListQuiet
  <2> QED
    BY <1>4, <1>5, <2>2, SessionEnds DEF OffPC
<1>6. CASE th[t].pc # "cmd"
  <2>1. ~Named(hit)
    BY <1>1, <1>3, <1>6 DEF Quiet, ThreadsQuiet, ThreadQuiet, Named
  <2> QED
    BY <1>1, <1>3, <1>4, <1>6, <2>1, LoginVanishes
<1> QED
  BY <1>5, <1>6

(* disconnectUser's last write: nobody serves the record any more. *)
LEMMA OffQuiet ==
  ASSUME TypeInv, TypeInv', Quiet, ~Clashing, up, NEW t \in Thread, Off(t)
  PROVE  Quiet' /\ UNCHANGED Chat!vars
<1> DEFINE r == th[t].found
           w == [rec[r] EXCEPT !.fd = NoFd]
<1>1. /\ rec' = [rec EXCEPT ![r] = w] /\ th' = [th EXCEPT ![t] = Idle]
      /\ UNCHANGED <<up, users, db, database>> /\ th[t].pc \in OffPC
      /\ open' = IF th[t].pc = "offBye" THEN open \ {th[t].fd} ELSE open
  BY DEF Off, OffPC
<1>2. Us \subseteq Rec /\ r \in Us /\ ~rec[r].connected
  BY <1>1, UsRec DEF TypeInv, Quiet, ThreadsQuiet, ThreadQuiet
<1>3. rec[r] \in Record
  BY <1>2 DEF TypeInv, RecTyped
<1>4. /\ w.name = rec[r].name /\ w.connected = rec[r].connected /\ w.fd = NoFd
      /\ w.password = rec[r].password /\ w \in Record
  BY <1>3 DEF Record
<1> HIDE DEF Th, Record, w, Rec
<1>5. \A q \in Rec : rec'[q] = IF q = r THEN w ELSE rec[q]
  BY <1>1, <1>4, OneRecord DEF TypeInv
<1>6. th'[t] = Idle /\ Idle.pc = "idle" /\ \A u \in Thread : u # t => th'[u] = th[u]
  BY <1>1, OneThread, IdleTyped DEF TypeInv
<1>7. Us' = Us
  BY <1>1 DEF Us
<1>8. \A q \in Rec : /\ rec'[q].name = rec[q].name /\ rec'[q].connected = rec[q].connected
                     /\ rec'[q].password = rec[q].password
                     /\ q # r => rec'[q].fd = rec[q].fd
  BY <1>4, <1>5
<1>9. rec'[r].fd = NoFd
  BY <1>2, <1>4, <1>5
<1>10. \A q \in Us : rec'[q].fd # NoFd => rec'[q].fd = rec[q].fd /\ q # r
  BY <1>2, <1>8, <1>9
<1>11. ListQuiet'
  <2>1. \A q \in Us : rec'[q].fd # NoFd => rec'[q].fd \in open'
    <3>1. CASE th[t].pc = "offBye"
      <4>1. \A q \in Us : rec[q].fd = th[t].fd => q = r
        BY <3>1 DEF Quiet, ThreadsQuiet, ThreadQuiet
      <4> QED
        BY <1>1, <1>10, <4>1 DEF Quiet, ListQuiet
    <3>2. CASE th[t].pc # "offBye"
      BY <1>1, <1>10, <3>2 DEF Quiet, ListQuiet
    <3> QED
      BY <3>1, <3>2
  <2>2. \A q \in Us : rec'[q].connected => rec'[q].name # NoName /\ rec'[q].fd # NoFd
    BY <1>2, <1>8 DEF Quiet, ListQuiet, Named
  <2>3. \A p, q \in Us : rec'[p].fd = rec'[q].fd /\ rec'[p].fd # NoFd => p = q
    BY <1>10 DEF Quiet, ListQuiet
  <2>4. \A p, q \in Us : rec'[p].name = rec'[q].name /\ rec'[p].name # NoName => p = q
    BY <1>2, <1>8 DEF Quiet, ListQuiet, Named
  <2> QED
    BY <1>7, <2>1, <2>2, <2>3, <2>4 DEF ListQuiet, Named
<1>12. ASSUME NEW u \in Thread, u # t PROVE ThreadQuiet(u)'
  <2>1. ThreadQuiet(u) /\ Own(u) \subseteq Rec
    BY OwnRec DEF Quiet, ThreadsQuiet
  <2>2. th'[u] = th[u]
    BY <1>6, <1>12
  <2>3. th[u].pc \notin OffPC => r \notin Own(u)
    <3>1. r \in Own(t)
      BY <1>1 DEF Own, InLogin, OffPC
    <3> QED
      BY <1>12, <3>1, OwnApart
  <2>4. th[u].pc # "idle" => th[u].fd \in open'
    BY <1>1, <1>12, <2>1 DEF ThreadQuiet, Quiet, ApartQuiet, OffPC
  <2>5. th[u].pc = "newpass" => \A q \in Us' : rec'[q].name # th[u].nm
    BY <1>2, <1>7, <1>8, <2>1 DEF ThreadQuiet
  <2>6. th[u].pc = "offBye" => \A q \in Us' : rec'[q].fd = th[u].fd => q = th[u].found
    <3>1. th[u].pc = "offBye" => th[u].fd # NoFd
      BY <2>1, FirstServerAssumption DEF ThreadQuiet, TypeInv, BasicTyped
    <3> QED
      BY <1>7, <1>10, <2>1, <3>1 DEF ThreadQuiet
  <2> QED
    BY <1>7, <1>8, <2>1, <2>2, <2>3, <2>4, <2>5, <2>6, OtherQuiet
<1>13. ThreadQuiet(t)'
  BY <1>6 DEF ThreadQuiet, InLogin, OffPC
<1>14. ApartQuiet'
  BY <1>6, StaysApart DEF Quiet
<1>15. Visible' = Visible /\ Visible \subseteq Us
  <2>1. th[t].pc \notin {"save", "insert"} /\ th'[t].pc \notin {"save", "insert"}
    BY <1>1, <1>6 DEF OffPC
  <2> QED
    BY <1>2, <1>6, <1>7, <1>8, <2>1, VisibleKept DEF Visible, Us
<1>16. DbQuiet' /\ UNCHANGED Chat!vars
  BY <1>1, <1>2, <1>8, <1>15, SameService
<1>17. HandleQuiet'
  BY <1>1, IdleTyped, HandleStays DEF Quiet
<1> QED
  BY <1>11, <1>12, <1>13, <1>14, <1>16, <1>17 DEF Quiet, ThreadsQuiet

LEMMA AcceptQuiet ==
  ASSUME TypeInv, TypeInv', Quiet, ~Clashing, up, NEW t \in Thread, NEW f \in Fd, Accept(t, f)
  PROVE  Quiet' /\ UNCHANGED Chat!vars
<1> DEFINE r == Min(FreeRec)
           v == [Idle EXCEPT !.pc = "hello", !.fd = f, !.cur = r]
           w == [Blank EXCEPT !.fd = f]
<1>0. PICK a : a = r
  OBVIOUS
<1>1. /\ FreeRec # {} /\ open' = open \cup {f} /\ UNCHANGED <<up, db, database>>
      /\ users' = Append(users, a) /\ rec' = [rec EXCEPT ![a] = w]
      /\ th' = [th EXCEPT ![t] = v] /\ th[t].pc = "idle" /\ f \notin open
  BY <1>0 DEF Accept
<1>2. /\ a \in Rec /\ a \notin Us
      /\ \A u \in Thread : th[u].cur # a /\ th[u].found # a
  BY <1>0, <1>1, NewFirst DEF FreeRec, Us
<1>3. v \in Th /\ v.pc = "hello" /\ v.cur = a /\ v.fd = f /\ v.found = NoRec
  BY <1>0, <1>2, FreshThread DEF PC, Idle
<1>4. w \in Record /\ w.name = NoName /\ ~w.connected /\ w.fd = f
  BY DEF Blank, Record
<1>5. f # NoFd /\ Us \subseteq Rec
  BY UsRec, FirstServerAssumption DEF TypeInv
<1> HIDE DEF r, v, w, Th, Record, Rec
<1>6. Us' = Us \cup {a}
  BY <1>1, <1>2, OneMore DEF TypeInv, ListTyped, Us
<1>7. \A q \in Rec : rec'[q] = IF q = a THEN w ELSE rec[q]
  BY <1>1, <1>4, OneRecord DEF TypeInv
<1>8. th'[t] = v /\ \A u \in Thread : u # t => th'[u] = th[u]
  BY <1>1, <1>3, OneThread DEF TypeInv
<1>9. rec'[a] = w /\ \A q \in Us : rec'[q] = rec[q] /\ q # a
  BY <1>2, <1>5, <1>7
<1>10. \A q \in Us : rec[q].fd # f
  BY <1>1, <1>5 DEF Quiet, ListQuiet
<1>11. ListQuiet'
  <2>1. \A q \in Us' : rec'[q].fd # NoFd => rec'[q].fd \in open'
    BY <1>1, <1>4, <1>6, <1>9 DEF Quiet, ListQuiet
  <2>2. \A q \in Us' : rec'[q].connected => rec'[q].name # NoName /\ rec'[q].fd # NoFd
    BY <1>4, <1>6, <1>9 DEF Quiet, ListQuiet, Named
  <2>3. \A p, q \in Us' : rec'[p].fd = rec'[q].fd /\ rec'[p].fd # NoFd => p = q
    BY <1>4, <1>6, <1>9, <1>10 DEF Quiet, ListQuiet
  <2>4. \A p, q \in Us' : rec'[p].name = rec'[q].name /\ rec'[p].name # NoName => p = q
    BY <1>4, <1>6, <1>9 DEF Quiet, ListQuiet, Named
  <2> QED
    BY <2>1, <2>2, <2>3, <2>4 DEF ListQuiet, Named
<1>12. ASSUME NEW u \in Thread, u # t PROVE ThreadQuiet(u)'
  <2>1. ThreadQuiet(u) /\ Own(u) \subseteq Rec
    BY OwnRec DEF Quiet, ThreadsQuiet
  <2>2. th'[u] = th[u]
    BY <1>8, <1>12
  <2>3. a \notin Own(u)
    BY <1>2 DEF Own
  <2>4. th[u].pc # "idle" => th[u].fd \in open' /\ th[u].fd # f
    BY <1>1, <2>1 DEF ThreadQuiet
  <2>5. th[u].pc = "newpass" => \A q \in Us' : rec'[q].name # th[u].nm
    <3>1. th[u].pc = "newpass" => th[u].nm # NoName
      BY FirstServerAssumption DEF TypeInv, LoginInv
    <3> QED
      BY <1>4, <1>6, <1>9, <2>1, <3>1 DEF ThreadQuiet
  <2>6. th[u].pc = "offBye" => \A q \in Us' : rec'[q].fd = th[u].fd => q = th[u].found
    BY <1>4, <1>6, <1>9, <2>1, <2>4 DEF ThreadQuiet
  <2>7. \A q \in Own(u) : rec'[q] = rec[q]
    BY <1>7, <2>1, <2>3
  <2> QED
    BY <1>6, <2>1, <2>2, <2>4, <2>5, <2>6, <2>7, OtherQuiet
<1>13. ThreadQuiet(t)'
  <2>1. a \in Us' /\ ~(Named(a)') /\ rec'[a].fd = f /\ f \in open'
    BY <1>1, <1>4, <1>6, <1>9 DEF Named
  <2> QED
    BY <1>3, <1>8, <2>1 DEF ThreadQuiet, InLogin, OffPC, Named
<1>14. ApartQuiet'
  <2>1. \A u \in Thread : th[u].pc # "idle" => th[u].fd # f
    BY <1>1 DEF Quiet, ThreadsQuiet, ThreadQuiet
  <2> QED
    BY <1>3, <1>8, <2>1 DEF Quiet, ApartQuiet
<1>15. Visible \subseteq Us /\ Visible' = Visible
  <2>1. a \notin Visible'
    BY <1>4, <1>9 DEF Visible
  <2>2. ASSUME NEW q \in Us PROVE q \in Visible' <=> q \in Visible
    <3>1. \A u \in Thread : (th'[u].pc \in {"save", "insert"} => th'[u].cur # q)
                              <=> (th[u].pc \in {"save", "insert"} => th[u].cur # q)
      BY <1>1, <1>3, <1>8
    <3> QED
      BY <1>6, <1>9, <3>1 DEF Visible, Us
  <2>3. Visible \subseteq Us /\ Visible' \subseteq Us'
    BY DEF Visible, Us
  <2> QED
    BY <1>6, <2>1, <2>2, <2>3
<1>16. DbQuiet' /\ UNCHANGED Chat!vars
  BY <1>1, <1>9, <1>15, SameService
<1>17. HandleQuiet'
  BY <1>1, <1>3, HandleStays DEF Quiet
<1> QED
  BY <1>11, <1>12, <1>13, <1>14, <1>16, <1>17 DEF Quiet, ThreadsQuiet

LEMMA NoThreads ==
  ASSUME \A t \in Thread : th[t] = Idle, Us = {}, DbQuiet
  PROVE  Quiet /\ ~Clashing
BY IdleTyped
  DEF Quiet, ListQuiet, ThreadsQuiet, ThreadQuiet, ApartQuiet, HandleQuiet,
    AtDatabase, InLogin, OffPC, Clashing

LEMMA HaltQuiet ==
  ASSUME TypeInv, TypeInv', Quiet, up, Halt
  PROVE  Quiet' /\ Chat!Stop
<1>1. ~up' /\ users' = <<>> /\ db' = db /\ th' = [t \in Thread |-> Idle]
  BY DEF Halt
<1>2. Us' = {}
  BY <1>1 DEF Us, ToSet
<1>3. Visible' = {}
  BY <1>2 DEF Visible, Us
<1>4. \A t \in Thread : th'[t] = Idle
  BY <1>1
<1>5. DbQuiet'
  BY <1>1 DEF Quiet, DbQuiet
<1>6. Quiet'
  BY <1>2, <1>4, <1>5, IdleTyped
    DEF Quiet, ListQuiet, ThreadsQuiet, ThreadQuiet, ApartQuiet, HandleQuiet,
      AtDatabase, InLogin, OffPC
<1>7. Session' = [n \in Name |-> NoFd]
  BY <1>3, SessionIs DEF SessionIn
<1>8. Accounts' = IF HasAccounts THEN Accounts ELSE {}
  <2>1. Accounts' = ToSet(db)
    BY <1>1, AccountsAre
  <2>2. HasAccounts => Accounts = ToSet(db)
    BY AccountsAre DEF Quiet, DbQuiet
  <2>3. ~HasAccounts => ToSet(db) = {}
    BY DEF Quiet, DbQuiet, ToSet
  <2> QED
    BY <2>1, <2>2, <2>3
<1> QED
  BY <1>6, <1>7, <1>8 DEF Chat!Stop

(* A start brings the accounts back. *)
LEMMA StartQuiet ==
  ASSUME TypeInv, TypeInv', Quiet, Start
  PROVE  Quiet' /\ UNCHANGED Chat!vars
<1>1. /\ ~up /\ Len(db) <= MaxRec /\ up' = TRUE /\ UNCHANGED <<open, db, database, th>>
      /\ users' = [i \in DOMAIN db |-> i]
      /\ rec' = [r \in Rec |->
           IF r \in DOMAIN db
             THEN [Blank EXCEPT !.name = db[r].name, !.password = db[r].password]
             ELSE Blank]
  BY DEF Start
<1>2. /\ users = <<>> /\ open = {} /\ \A t \in Thread : th[t] = Idle /\ th'[t] = Idle
  BY <1>1 DEF TypeInv, LoginInv
<1>3. /\ DOMAIN db = 1 .. Len(db) /\ Len(db) \in Nat
      /\ \A i \in DOMAIN db : db[i] \in Row
      /\ \A i, j \in DOMAIN db : db[i].name = db[j].name => i = j
  BY DEF TypeInv, DbTyped
<1>4. DOMAIN db \subseteq Rec
  <2> DEFINE n == Len(db)
  <2>1. n \in Nat /\ n <= MaxRec /\ MaxRec \in Nat /\ DOMAIN db = 1 .. n
    BY <1>1, <1>3, FirstServerAssumption
  <2> HIDE DEF n
  <2> QED
    BY <2>1 DEF Rec
<1>5. Us' = DOMAIN db
  BY <1>1 DEF Us, ToSet
<1>6. \A i \in DOMAIN db : /\ rec'[i].name = db[i].name /\ rec'[i].password = db[i].password
                           /\ rec'[i].connected = FALSE /\ rec'[i].fd = NoFd
                           /\ rec'[i].name \in Name /\ rec'[i].name # NoName
  <2> DEFINE b(n, p) == [Blank EXCEPT !.name = n, !.password = p]
  <2> HIDE DEF Rec
  <2>1. \A i \in DOMAIN db : rec'[i] = b(db[i].name, db[i].password)
    BY <1>1, <1>4
  <2>2. \A i \in DOMAIN db : db[i].name \in Name /\ db[i].name # NoName
    BY <1>3, FirstServerAssumption DEF Row
  <2>3. \A n, p : /\ b(n, p).name = n /\ b(n, p).password = p
                  /\ b(n, p).connected = FALSE /\ b(n, p).fd = NoFd
    BY DEF Blank
  <2> HIDE DEF b
  <2> QED
    BY <2>1, <2>2, <2>3
<1>7. ListQuiet'
  BY <1>3, <1>5, <1>6 DEF ListQuiet, Named
<1>8. ThreadsQuiet' /\ ApartQuiet' /\ HandleQuiet'
  BY <1>2, IdleTyped DEF ThreadsQuiet, ThreadQuiet, ApartQuiet, HandleQuiet, AtDatabase, InLogin, OffPC
<1>9. Visible' = DOMAIN db
  <2>1. \A t \in Thread : th'[t].pc \notin {"save", "insert"}
    BY <1>2, IdleTyped
  <2> QED
    BY <1>5, <1>6, <2>1 DEF Visible, Us
<1>10. Visible = {}
  BY <1>2 DEF Visible, ToSet
<1>11. AccountsIn(Visible', rec') = ToSet(db)
  <2>1. \A i \in DOMAIN db :
          [name |-> rec'[i].name, password |-> rec'[i].password] = db[i]
    BY <1>3, <1>6 DEF Row
  <2> QED
    BY <1>9, <2>1 DEF AccountsIn, ToSet
<1>12. DbQuiet'
  BY <1>1, <1>11 DEF Quiet, DbQuiet
<1>13. Accounts' = Accounts
  BY <1>1, <1>11, AccountsAre
<1>14. Session = [n \in Name |-> NoFd] /\ Session' = [n \in Name |-> NoFd]
  BY <1>6, <1>9, <1>10, SessionIs DEF SessionIn
<1> QED
  BY <1>7, <1>8, <1>12, <1>13, <1>14 DEF Quiet, Chat!vars

-----------------------------------------------------------------------------
LEMMA InitQuiet == Init => IInv /\ Chat!Init
<1> SUFFICES ASSUME Init PROVE IInv /\ Chat!Init
  OBVIOUS
<1>1. up /\ users = <<>> /\ db = <<>> /\ \A t \in Thread : th[t] = Idle
  BY DEF Init
<1>2. Us = {} /\ Visible = {}
  BY <1>1 DEF Us, ToSet, Visible
<1>3. DbQuiet
  BY <1>1, <1>2 DEF DbQuiet, AccountsIn, ToSet
<1>4. IInv
  BY <1>1, <1>2, <1>3, TypeInit, NoThreads DEF IInv
<1>5. Accounts = {} /\ Session = [n \in Name |-> NoFd]
  BY <1>1, <1>2, AccountsAre, SessionIs DEF AccountsIn, SessionIn
<1> QED
  BY <1>4, <1>5 DEF Chat!Init

LEMMA ConnectionQuiet ==
  ASSUME TypeInv, TypeInv', Quiet, ~Clashing, ~Clashing', NEW t \in Thread, Connection(t)
  PROVE  Quiet' /\ [Chat!Next]_(Chat!vars)
<1>1. up
  BY ActsWhenUp
<1>2. ASSUME NEW f \in Fd, Accept(t, f) PROVE Quiet' /\ UNCHANGED Chat!vars
  BY <1>1, <1>2, AcceptQuiet
<1>3. ASSUME Hello(t) PROVE Quiet' /\ UNCHANGED Chat!vars
  BY <1>1, <1>3, HelloQuiet
<1>4. ASSUME WrongMessage(t) PROVE Quiet' /\ UNCHANGED Chat!vars
  BY <1>1, <1>4, RefuseQuiet DEF WrongMessage, Reads
<1>5. ASSUME NEW n \in Name, IamNew(t, n) PROVE Quiet' /\ UNCHANGED Chat!vars
  BY <1>1, <1>5, IamNewQuiet
<1>6. ASSUME NEW n \in Name, Iam(t, n) PROVE Quiet' /\ UNCHANGED Chat!vars
  BY <1>1, <1>6, IamQuiet
<1>7. ASSUME NEW p \in Password, NewPass(t, p) PROVE Quiet' /\ UNCHANGED Chat!vars
  BY <1>1, <1>7, NewPassQuiet
<1>8. ASSUME NEW p \in Password, Pass(t, p)
      PROVE  Quiet' /\ (UNCHANGED Chat!vars \/ Chat!Next)
  BY <1>1, <1>8, PassQuiet DEF Chat!Next
<1>9. ASSUME OpenDatabase(t) PROVE Quiet' /\ (UNCHANGED Chat!vars \/ Chat!Next)
  BY <1>1, <1>9, OpenQuiet DEF Chat!Next
<1>10. ASSUME Enter(t) PROVE Quiet' /\ UNCHANGED Chat!vars
  BY <1>1, <1>10, EnterQuiet
<1>11. ASSUME Bye(t) PROVE Quiet' /\ Chat!Next
  BY <1>1, <1>11, ByeQuiet DEF Chat!Next
<1>12. ASSUME Crash(t) PROVE Quiet' /\ (UNCHANGED Chat!vars \/ Chat!Next)
  BY <1>1, <1>12, CrashQuiet DEF Chat!Next
<1>13. ASSUME Off(t) PROVE Quiet' /\ UNCHANGED Chat!vars
  BY <1>1, <1>13, OffQuiet
<1>14. ASSUME Insert(t) PROVE Quiet' /\ Chat!Next
  BY <1>1, <1>14, InsertQuiet DEF Chat!Next
<1>15. ASSUME CloseDatabase(t) PROVE Quiet' /\ UNCHANGED Chat!vars
  BY <1>1, <1>15, CloseQuiet
<1>16. ~UseAfterClose(t)
  BY AloneAtDatabase DEF UseAfterClose
<1> QED
  BY <1>2, <1>3, <1>4, <1>5, <1>6, <1>7, <1>8, <1>9, <1>10, <1>11, <1>12, <1>13,
    <1>14, <1>15, <1>16
    DEF Connection

LEMMA StepQuiet ==
  ASSUME IInv, [Next]_vars
  PROVE  IInv' /\ [Chat!Next \/ clash']_(Chat!vars)
<1>1. TypeInv /\ TypeInv'
  BY TypeStep DEF IInv
<1>2. CASE UNCHANGED vars
  <2>1. UNCHANGED Chat!vars
    BY <1>2 DEF vars, Chat!vars, Accounts, Session, Visible
  <2>2. Us' = Us /\ Visible' = Visible
    BY <1>2 DEF vars, Us, Visible
  <2>3. Quiet => Quiet'
    <3>1. ListQuiet => ListQuiet'
      BY <1>2, <2>2 DEF vars, ListQuiet, Named
    <3>2. \A t \in Thread : ThreadQuiet(t) => ThreadQuiet(t)'
      BY <1>2, <2>2 DEF vars, ThreadQuiet, Serving, Named, InLogin
    <3>3. (ApartQuiet => ApartQuiet') /\ (DbQuiet => DbQuiet') /\ (HandleQuiet => HandleQuiet')
      BY <1>2, <2>2 DEF vars, ApartQuiet, DbQuiet, HandleQuiet, AtDatabase
    <3> QED
      BY <3>1, <3>2, <3>3 DEF Quiet, ThreadsQuiet
  <2>4. ~Clashing => ~Clashing'
    BY <1>2 DEF vars, Clashing, AtDatabase, InLogin
  <2> QED
    BY <1>1, <1>2, <2>1, <2>3, <2>4 DEF vars, IInv
<1>3. CASE Next
  <2>1. clash' = (clash \/ Clashing')
    BY <1>3 DEF Next
  <2>2. clash \in BOOLEAN /\ clash' \in BOOLEAN
    BY <1>1 DEF TypeInv, BasicTyped
  <2>3. CASE clash'
    BY <1>1, <2>3 DEF IInv
  <2>4. CASE ~clash'
    <3>1. Quiet /\ ~Clashing /\ ~Clashing'
      BY <2>1, <2>2, <2>4 DEF IInv
    <3>2. ASSUME NEW t \in Thread, Connection(t) PROVE Quiet' /\ [Chat!Next]_(Chat!vars)
      BY <1>1, <3>1, <3>2, ConnectionQuiet
    <3>3. ASSUME AcceptFails \/ Stop PROVE Quiet' /\ Chat!Next
      BY <1>1, <3>1, <3>3, HaltQuiet DEF AcceptFails, Stop, Chat!Next
    <3>4. ASSUME Start PROVE Quiet' /\ UNCHANGED Chat!vars
      BY <1>1, <3>1, <3>4, StartQuiet
    <3>5. Quiet' /\ [Chat!Next]_(Chat!vars)
      BY <1>3, <3>2, <3>3, <3>4 DEF Next
    <3> QED
      BY <1>1, <3>1, <3>5 DEF IInv
  <2> QED
    BY <2>3, <2>4
<1> QED
  BY <1>2, <1>3

(* As long as no two threads are at work on one account, on the record of    *)
(* one connection or in addUserToDatabase, the server without a mutex keeps  *)
(* ChatService's promise about accounts and sessions, however many threads,  *)
(* connections and accounts there are.                                       *)
THEOREM ServesWithoutClash == Spec => ServesUntilClash
<1>1. Init => IInv /\ Chat!Init
  BY InitQuiet
<1>2. IInv /\ [Next]_vars => IInv' /\ [Chat!Next \/ clash']_(Chat!vars)
  BY StepQuiet
<1> QED
  BY <1>1, <1>2, PTL DEF Spec, ServesUntilClash
=============================================================================
