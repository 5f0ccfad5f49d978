-------------------------- MODULE ChatClientProofs --------------------------
(***************************************************************************)
(* The client keeps numbers of closed descriptors in its list, and the     *)
(* kernel gives numbers out again.  WindowsInv says why no line and no     *)
(* message goes astray all the same: a chat in use has the number of its   *)
(* own window's socket or a closed one, no two of them have the same, and  *)
(* between fork and addToChats the new window's socket is open (PlaceInv). *)
(*                                                                         *)
(* That alone is not inductive.  A chat in use whose number is closed      *)
(* (closeChatWindow has closed a number another chat had by then) would    *)
(* get somebody else's socket with the next MSG.  StuckInv is the reason   *)
(* that there is no next MSG: select fails on the closed number from then  *)
(* on, and the loop calls it for ever.                                     *)
(*                                                                         *)
(* LoginInv follows the dialogue place by place: a place of the client     *)
(* allows few places of the server, each with the messages on their way.   *)
(***************************************************************************)
EXTENDS ChatClient, FiniteSetTheorems, WellFoundedInduction, TLAPS

Chat == [name : Friend, fd : Fd, passed : Fd, history : Fd, pid : Window,
         disconnected : BOOLEAN, chatClosed : BOOLEAN]
Made == [fd : Fd, passed : Fd, history : Fd, pid : Window]

(* What the code knows at its places in the handling of a MSG.               *)
PlaceInv ==
  /\ at \in {"create", "forked", "show"} => peer \in Friend
  /\ at = "forked" =>
       /\ made \in Made
       /\ use[made.fd] = Near(made.pid)
       /\ peerOf[made.pid] = peer
       /\ win[made.pid] # "none"

(* The list has one record for a friend; a closed chat is disconnected; its  *)
(* window has been forked.                                                   *)
ListInv ==
  /\ \A i, j \in DOMAIN chats : chats[i].name = chats[j].name => i = j
  /\ \A i \in DOMAIN chats : /\ chats[i].chatClosed => chats[i].disconnected
                             /\ win[chats[i].pid] # "none"

(* A chat in use has its own window's socket, or a number that is closed.    *)
OwnInv ==
  \A i \in DOMAIN chats : InUse(i) =>
    /\ peerOf[chats[i].pid] = chats[i].name
    /\ use[chats[i].fd] \in {Unused, Near(chats[i].pid)}

ApartInv ==
  \A i, j \in DOMAIN chats :
    InUse(i) /\ InUse(j) /\ chats[i].fd = chats[j].fd => i = j

(* While a chat in use has a closed number, the loop handles nothing more    *)
(* but the windows that are left in its round: select does not return.       *)
StuckInv ==
  \A i \in DOMAIN chats : InUse(i) /\ use[chats[i].fd] = Unused =>
    at = "select" \/ (at = "round" /\ todo \cap {Stdin, Server} = {})

ShowInv ==
  at = "show" =>
    \E i \in DOMAIN chats :
      /\ chats[i].name = peer
      /\ \E w \in Window : use[chats[i].fd] = Near(w) /\ peerOf[w] = peer

WindowsInv == PlaceInv /\ ListInv /\ OwnInv /\ ApartInv /\ StuckInv /\ ShowInv

(* TypeOK in parts. *)
LoginTyped ==
  /\ new \in BOOLEAN
  /\ cpc \in {"start", "eiflow", "claim", "prompt", "password", "hi", "motd",
              "bye", "byeHi", "loop"} \cup ClientEnded
  /\ spc \in {"wolfie", "iam", "secret", "hi", "motd", "in", "out", "gone",
              "over"}
  /\ toServer \in Seq(Verb) /\ toClient \in Seq(Verb)

KernelTyped ==
  /\ use \in [Fd -> [kind : {"unused", "near", "far", "history"},
                     of : Window \cup Friend \cup {Nobody}]]
  /\ win \in [Window -> {"none", "alive", "killed", "zombie", "reaped"}]
  /\ peerOf \in [Window -> Friend \cup {Nobody}]
  /\ typed \subseteq Window

MainTyped ==
  /\ sig \in BOOLEAN /\ handling \in BOOLEAN
  /\ at \in {"select", "round", "logout", "create", "forked", "show",
             "loggedOut", "interrupted", "crashed"}
  /\ todo \subseteq Fd \cup {Stdin, Server}
  /\ peer \in Friend \cup {Nobody}
  /\ made \in Made \cup {NoChat}

ListTyped == chats \in Seq(Chat)

LEMMA TypeParts == TypeOK <=> LoginTyped /\ KernelTyped /\ MainTyped /\ ListTyped
BY DEF TypeOK, LoginTyped, KernelTyped, MainTyped, ListTyped, Chat, Made

LEMMA TypePartsNext ==
  TypeOK' <=> LoginTyped' /\ KernelTyped' /\ MainTyped' /\ ListTyped'
BY TypeParts, PTL

-----------------------------------------------------------------------------
(* The least member of a set of numbers, as FirstOf and Lowest choose it.    *)
Less == {pair \in Nat \X Nat : pair[1] < pair[2]}

LEMMA LeastExists ==
  ASSUME NEW S, S \subseteq Nat, S # {}
  PROVE  \E x \in S : \A y \in S : x <= y
<1>1. Less = OpToRel(<, Nat)
  BY DEF OpToRel, Less
<1>2. IsWellFoundedOn(Less, Nat)
  BY <1>1, NatLessThanWellFounded
<1>3. PICK x \in S : \A y \in S : ~ (<<y, x>> \in Less)
  BY <1>2, WFMin
<1>4. \A y \in S : <<y, x>> \in Nat \X Nat /\ <<y, x>>[1] = y /\ <<y, x>>[2] = x
  OBVIOUS
<1>5. \A y \in S : y < x => <<y, x>> \in Less
  BY <1>4 DEF Less
<1>6. \A y \in S : ~(y < x)
  BY <1>3, <1>5
<1>7. \A y \in S : y \in Int /\ x \in Int
  OBVIOUS
<1>8. \A y \in S : x <= y
  BY <1>6, <1>7
<1> QED
  BY <1>8

LEMMA LowestMember ==
  ASSUME NEW S, S \subseteq Nat, S # {}
  PROVE  Lowest(S) \in S
<1>1. \E x \in S : \A y \in S : x <= y
  BY LeastExists
<1> QED
  BY <1>1, Zenon DEF Lowest

LEMMA FirstMember ==
  ASSUME NEW S, S \subseteq Nat \ {0}
  PROVE  /\ FirstOf(S) = 0 => S = {}
         /\ FirstOf(S) # 0 => FirstOf(S) \in S
<1>1. CASE S = {}
  BY <1>1 DEF FirstOf
<1>2. CASE S # {}
  <2>1. Lowest(S) \in S
    BY <1>2, LowestMember
  <2>2. FirstOf(S) = Lowest(S)
    BY <1>2 DEF FirstOf
  <2> QED
    BY <1>2, <2>1, <2>2
<1> QED
  BY <1>1, <1>2

(* getChatByFd, getChat and removeChatPid find a chat if there is one. *)
LEMMA ChatFound ==
  ASSUME ListTyped, NEW f, NEW n, NEW w
  PROVE  /\ ChatByFd(f) # 0 => ChatByFd(f) \in DOMAIN chats /\ chats[ChatByFd(f)].fd = f
         /\ ChatOf(n) # 0 => ChatOf(n) \in DOMAIN chats /\ chats[ChatOf(n)].name = n
         /\ ChatOf(n) = 0 => \A i \in DOMAIN chats : chats[i].name # n
         /\ ChatByPid(w) # 0 => ChatByPid(w) \in DOMAIN chats /\ chats[ChatByPid(w)].pid = w
<1> HIDE DEF Chat
<1>1. DOMAIN chats \subseteq Nat \ {0}
  BY DEF ListTyped
<1> DEFINE F == {i \in DOMAIN chats : chats[i].fd = f}
           N == {i \in DOMAIN chats : chats[i].name = n}
           W == {i \in DOMAIN chats : chats[i].pid = w}
<1>2. ChatByFd(f) # 0 => ChatByFd(f) \in F
  BY <1>1, FirstMember DEF ChatByFd
<1>3. /\ ChatOf(n) # 0 => ChatOf(n) \in N
      /\ ChatOf(n) = 0 => N = {}
  BY <1>1, FirstMember DEF ChatOf
<1>4. ChatByPid(w) # 0 => ChatByPid(w) \in W
  BY <1>1, FirstMember DEF ChatByPid
<1> QED
  BY <1>2, <1>3, <1>4

(* createChat gets three numbers. *)
LEMMA ThreeFree ==
  ASSUME Cardinality(FreeFds) >= 3
  PROVE  LET a == Lowest(FreeFds)
             b == Lowest(FreeFds \ {a})
             c == Lowest(FreeFds \ {a, b})
         IN a \in FreeFds /\ b \in FreeFds \ {a} /\ c \in FreeFds \ {a, b}
<1> DEFINE a == Lowest(FreeFds)
           b == Lowest(FreeFds \ {a})
           c == Lowest(FreeFds \ {a, b})
<1>1. FreeFds \subseteq Nat /\ IsFiniteSet(FreeFds)
  <2>1. IsFiniteSet(1 .. MaxFd)
    BY ClientAssumption, FS_Interval
  <2>2. FreeFds \subseteq 1 .. MaxFd
    BY DEF FreeFds, Fd
  <2>3. IsFiniteSet(FreeFds)
    BY <2>1, <2>2, FS_Subset
  <2> QED
    BY <2>2, <2>3
<1>2. Cardinality(FreeFds) \in Nat /\ FreeFds # {}
  BY <1>1, FS_CardinalityType, FS_EmptySet
<1>3. a \in FreeFds
  BY <1>1, <1>2, LowestMember
<1> HIDE DEF a
<1>4. /\ IsFiniteSet(FreeFds \ {a})
      /\ Cardinality(FreeFds \ {a}) = Cardinality(FreeFds) - 1
  BY <1>1, <1>3, FS_RemoveElement
<1>5. FreeFds \ {a} # {}
  BY <1>2, <1>4, FS_EmptySet
<1>6. b \in FreeFds \ {a}
  BY <1>1, <1>5, LowestMember
<1> HIDE DEF b
<1>7. Cardinality((FreeFds \ {a}) \ {b}) = Cardinality(FreeFds \ {a}) - 1
  BY <1>4, <1>6, FS_RemoveElement
<1>8. (FreeFds \ {a}) \ {b} # {}
  <2>1. Cardinality((FreeFds \ {a}) \ {b}) # 0
    BY <1>2, <1>4, <1>7
  <2> QED
    BY <2>1, FS_EmptySet
<1>9. FreeFds \ {a, b} # {}
  BY <1>8
<1>10. c \in FreeFds \ {a, b}
  BY <1>1, <1>9, LowestMember
<1> QED
  BY <1>3, <1>6, <1>10 DEF a, b

-----------------------------------------------------------------------------
(* The steps of the dialogue and those of the select loop leave each other's *)
(* variables alone.                                                          *)
LoginStep == ClientLogin \/ ServerLogin \/ QuitLogin \/ RelayEarly \/ ServerStops
LoopStep ==
  \/ Main \/ CatchSigChild \/ Interrupt
  \/ \E w \in Window : Type(w) \/ Die(w) \/ Reap(w)

LEMMA NextSteps == Next <=> LoginStep \/ LoopStep
BY Zenon DEF Next, LoginStep, LoopStep

LEMMA LoginStepFrame == LoginStep => UNCHANGED chatVars
<1>1. ClientLogin => UNCHANGED chatVars
  BY Zenon DEF ClientLogin, SendWolfie, SendPassword, ServerLost, ReadEiflow, ReadClaimAnswer,
    ReadPasswordAnswer, ReadHi, ReadMotd, ReadBye, Receive, Take
<1>2. ServerLogin => UNCHANGED chatVars
  BY Zenon DEF ServerLogin, ServerHi, ServerMotd, ClientLost, ServerWolfie, ServerClaim,
    ServerSecret, Dialogue
<1> QED
  BY <1>1, <1>2, Zenon DEF LoginStep, QuitLogin, RelayEarly, ServerStops, Dialogue

LEMMA LoopStepFrame == LoopStep => UNCHANGED loginVars
<1>1. Main => UNCHANGED loginVars
  BY Zenon DEF Main, Select, EndRound, LogoutAnswered, LogoutDelayed, Command, ServerBye,
    ServerText, Uoff, Msg, CreateChat, StoreChat, ShowMsg, WindowNull, WindowSkipped,
    WindowLine, CloseChatWindow, LeaveAs, EndAs, Crash
<1> QED
  BY <1>1, Zenon DEF LoopStep, CatchSigChild, Interrupt, Type, Die, Reap, LeaveAs, EndAs

LEMMA MessagesTyped ==
  ASSUME NEW s \in Seq(Verb), NEW t \in Seq(Verb), NEW m \in Verb
  PROVE  /\ s # <<>> => Tail(s) \in Seq(Verb)
         /\ Append(s, m) \in Seq(Verb)
         /\ s \o t \in Seq(Verb)
         /\ <<>> \in Seq(Verb) /\ <<m>> \in Seq(Verb)
<1> HIDE DEF Verb
<1> QED
  OBVIOUS

LEMMA ServerMessages ==
  /\ {"WOLFIE", "IAM", "IAMNEW", "PASS", "NEWPASS", "MSG", "HI", "MOTD", "BYE"} \subseteq Verb
  /\ <<>> \in Seq(Verb) /\ <<"EIFLOW">> \in Seq(Verb)
  /\ <<"HINEW">> \in Seq(Verb) /\ <<"AUTH">> \in Seq(Verb)
  /\ <<"SSAPWEN">> \in Seq(Verb) /\ <<"SSAP">> \in Seq(Verb)
  /\ <<"HI">> \in Seq(Verb) /\ <<"MOTD">> \in Seq(Verb) /\ <<"MSG">> \in Seq(Verb)
  /\ Refused \in Seq(Verb)
<1>1. {"WOLFIE", "IAM", "IAMNEW", "PASS", "NEWPASS", "MSG", "HI", "MOTD", "EIFLOW", "HINEW",
       "AUTH", "SSAPWEN", "SSAP", "ERR", "BYE"} \subseteq Verb
  BY DEF Verb
<1> HIDE DEF Verb
<1>2. \A m \in Verb : <<m>> \in Seq(Verb)
  OBVIOUS
<1>3. \A m, n \in Verb : <<m, n>> \in Seq(Verb)
  OBVIOUS
<1> QED
  BY <1>1, <1>2, <1>3 DEF Refused

LEMMA LoginTypedStep == LoginTyped /\ LoginStep => LoginTyped'
<1> SUFFICES ASSUME LoginTyped, LoginStep PROVE LoginTyped'
  OBVIOUS
<1> USE MessagesTyped, ServerMessages
<1> HIDE DEF Verb
<1>1. CASE SendWolfie \/ SendPassword
  BY <1>1 DEF SendWolfie, SendPassword, Send, LoginTyped
<1>2. CASE ServerLost \/ QuitLogin
  BY <1>2 DEF ServerLost, QuitLogin, LoginTyped, ClientEnded
<1>3. ASSUME NEW m \in Verb, ReadEiflow(m) PROVE LoginTyped'
  BY <1>3 DEF ReadEiflow, Receive, Take, Send, LoginTyped
<1>4. ASSUME NEW m \in Verb, ReadClaimAnswer(m) \/ ReadPasswordAnswer(m) PROVE LoginTyped'
  BY <1>4 DEF ReadClaimAnswer, ReadPasswordAnswer, Receive, Take, LoginTyped
<1>5. ASSUME NEW m \in Verb, ReadHi(m) \/ ReadMotd(m) PROVE LoginTyped'
  BY <1>5 DEF ReadHi, ReadMotd, EnterLoop, Receive, Take, LoginTyped
<1>6. ASSUME NEW m \in Verb, ReadBye(m) PROVE LoginTyped'
  BY <1>6 DEF ReadBye, EnterLoop, Receive, Take, Send, LoginTyped, ClientEnded
<1>7. CASE ServerHi \/ ServerMotd \/ RelayEarly
  BY <1>7 DEF ServerHi, ServerMotd, RelayEarly, Dialogue, Reply, LoginTyped
<1>8. CASE ClientLost \/ ServerStops
  BY <1>8 DEF ClientLost, ServerStops, Dialogue, LoginTyped
<1>9. ASSUME NEW m \in Verb, ServerWolfie(m) PROVE LoginTyped'
  BY <1>9 DEF ServerWolfie, Serve, Dialogue, Reply, LoginTyped
<1>10. ASSUME NEW m \in Verb, NEW ok \in BOOLEAN, ServerClaim(m, ok) PROVE LoginTyped'
  BY <1>10 DEF ServerClaim, Serve, Dialogue, Reply, LoginTyped
<1>11. ASSUME NEW m \in Verb, NEW ok \in BOOLEAN, ServerSecret(m, ok) PROVE LoginTyped'
  BY <1>11 DEF ServerSecret, Serve, Dialogue, Reply, LoginTyped
<1> QED
  BY <1>1, <1>2, <1>3, <1>4, <1>5, <1>6, <1>7, <1>8, <1>9, <1>10, <1>11
  DEF LoginStep, ClientLogin, ServerLogin

-----------------------------------------------------------------------------
(* What changes in the list. *)
LEMMA OneChat ==
  ASSUME ListTyped, NEW i \in DOMAIN chats, NEW c \in Chat,
         chats' = [chats EXCEPT ![i] = c]
  PROVE  /\ ListTyped' /\ DOMAIN chats' = DOMAIN chats
         /\ \A j \in DOMAIN chats : chats'[j] = IF j = i THEN c ELSE chats[j]
<1> HIDE DEF Chat
<1> QED
  BY DEF ListTyped

LEMMA ChatTyped == ASSUME ListTyped, NEW i \in DOMAIN chats PROVE chats[i] \in Chat
<1> HIDE DEF Chat
<1> QED
  BY DEF ListTyped

(* Its flags are set. *)
LEMMA FlagsSet ==
  ASSUME ListTyped, NEW i \in DOMAIN chats, NEW d \in BOOLEAN, NEW e \in BOOLEAN,
         chats' = [chats EXCEPT ![i].disconnected = d, ![i].chatClosed = e]
  PROVE  /\ ListTyped' /\ DOMAIN chats' = DOMAIN chats
         /\ \A j \in DOMAIN chats :
              /\ chats'[j].name = chats[j].name /\ chats'[j].fd = chats[j].fd
              /\ chats'[j].pid = chats[j].pid
              /\ j # i => chats'[j] = chats[j]
         /\ chats'[i].disconnected = d /\ chats'[i].chatClosed = e
<1> DEFINE c == [chats[i] EXCEPT !.disconnected = d, !.chatClosed = e]
<1>1. chats[i] \in Chat
  BY ChatTyped
<1>2. /\ c \in Chat /\ c.name = chats[i].name /\ c.fd = chats[i].fd /\ c.pid = chats[i].pid
      /\ c.disconnected = d /\ c.chatClosed = e
  BY <1>1 DEF Chat
<1>3. chats' = [chats EXCEPT ![i] = c]
  BY <1>1 DEF Chat
<1> HIDE DEF c
<1> QED
  BY <1>2, <1>3, OneChat

(* One flag is set, the other stays. *)
LEMMA OneFlagSet ==
  ASSUME ListTyped, NEW i \in DOMAIN chats,
         \/ chats' = [chats EXCEPT ![i].disconnected = TRUE]
         \/ chats' = [chats EXCEPT ![i].chatClosed = TRUE]
  PROVE  \E d, e \in BOOLEAN :
           /\ chats' = [chats EXCEPT ![i].disconnected = d, ![i].chatClosed = e]
           /\ d \in {TRUE, chats[i].disconnected} /\ e \in {TRUE, chats[i].chatClosed}
<1>1. chats[i] \in Chat
  BY ChatTyped
<1>2. chats[i].disconnected \in BOOLEAN /\ chats[i].chatClosed \in BOOLEAN
  BY <1>1 DEF Chat
<1>3. CASE chats' = [chats EXCEPT ![i].disconnected = TRUE]
  <2>1. [chats[i] EXCEPT !.disconnected = TRUE]
          = [chats[i] EXCEPT !.disconnected = TRUE, !.chatClosed = chats[i].chatClosed]
    BY <1>1 DEF Chat
  <2>2. chats' = [chats EXCEPT ![i].disconnected = TRUE, ![i].chatClosed = chats[i].chatClosed]
    BY <1>3, <2>1
  <2> QED
    BY <1>2, <2>2
<1>4. CASE chats' = [chats EXCEPT ![i].chatClosed = TRUE]
  <2>1. [chats[i] EXCEPT !.chatClosed = TRUE]
          = [chats[i] EXCEPT !.disconnected = chats[i].disconnected, !.chatClosed = TRUE]
    BY <1>1 DEF Chat
  <2>2. chats' = [chats EXCEPT ![i].disconnected = chats[i].disconnected, ![i].chatClosed = TRUE]
    BY <1>4, <2>1
  <2> QED
    BY <1>2, <2>2
<1> QED
  BY <1>3, <1>4

(* The new window's numbers go into the friend's record, or into a new one. *)
LEMMA ChatStored ==
  ASSUME ListTyped, ListInv, made \in Made, peer \in Friend, StoreChat
  PROVE  /\ ListTyped'
         /\ \E k \in DOMAIN chats' :
              /\ chats'[k].name = peer /\ chats'[k].fd = made.fd /\ chats'[k].pid = made.pid
              /\ chats'[k].chatClosed => chats'[k].disconnected
              /\ \A j \in DOMAIN chats' : j # k =>
                   /\ j \in DOMAIN chats /\ chats'[j] = chats[j] /\ chats[j].name # peer
<1> DEFINE i == ChatOf(peer)
           fresh == [name |-> peer, fd |-> made.fd, passed |-> made.passed,
                     history |-> made.history, pid |-> made.pid,
                     disconnected |-> FALSE, chatClosed |-> FALSE]
<1>1. /\ i # 0 => i \in DOMAIN chats /\ chats[i].name = peer
      /\ i = 0 => \A j \in DOMAIN chats : chats[j].name # peer
  BY ChatFound
<1>2. chats' = IF i = 0 THEN Append(chats, fresh)
               ELSE [chats EXCEPT ![i].fd = made.fd, ![i].passed = made.passed,
                                  ![i].history = made.history, ![i].pid = made.pid]
  BY DEF StoreChat
<1>3. CASE i = 0
  <2>1. /\ fresh \in Chat /\ fresh.name = peer /\ fresh.fd = made.fd /\ fresh.pid = made.pid
        /\ ~fresh.chatClosed
    BY DEF Chat, Made
  <2> HIDE DEF fresh, Chat
  <2>2. chats' = Append(chats, fresh)
    BY <1>2, <1>3
  <2>3. /\ ListTyped' /\ DOMAIN chats' = DOMAIN chats \cup {Len(chats) + 1}
        /\ Len(chats) + 1 \notin DOMAIN chats
        /\ chats'[Len(chats) + 1] = fresh
        /\ \A j \in DOMAIN chats : chats'[j] = chats[j]
    BY <2>1, <2>2 DEF ListTyped
  <2> HIDE DEF i
  <2> QED
    BY <1>1, <1>3, <2>1, <2>3
<1>4. CASE i # 0
  <2> DEFINE c == [chats[i] EXCEPT !.fd = made.fd, !.passed = made.passed,
                                   !.history = made.history, !.pid = made.pid]
  <2> HIDE DEF i
  <2>1. chats[i] \in Chat
    BY <1>1, <1>4, ChatTyped
  <2>2. /\ c \in Chat /\ c.name = chats[i].name /\ c.fd = made.fd /\ c.pid = made.pid
        /\ c.disconnected = chats[i].disconnected /\ c.chatClosed = chats[i].chatClosed
    BY <2>1 DEF Chat, Made
  <2>3. chats' = [chats EXCEPT ![i] = c]
    BY <1>2, <1>4, <2>1 DEF Chat
  <2> HIDE DEF c
  <2>4. /\ ListTyped' /\ DOMAIN chats' = DOMAIN chats
        /\ \A j \in DOMAIN chats : chats'[j] = IF j = i THEN c ELSE chats[j]
    BY <1>1, <1>4, <2>2, <2>3, OneChat
  <2>5. chats[i].chatClosed => chats[i].disconnected
    BY <1>1, <1>4 DEF ListInv
  <2>6. \A j \in DOMAIN chats : j # i => chats[j].name # peer
    BY <1>1, <1>4 DEF ListInv
  <2> QED
    BY <1>1, <1>4, <2>2, <2>4, <2>5, <2>6
<1> QED
  BY <1>3, <1>4

-----------------------------------------------------------------------------
(* What most steps do: the list keeps its records, of which some may become  *)
(* disconnected, no number changes hands, no window is unforked, and no      *)
(* descriptor is added to the round.                                         *)
SameRecords ==
  /\ DOMAIN chats' = DOMAIN chats
  /\ \A j \in DOMAIN chats :
       /\ chats'[j].name = chats[j].name /\ chats'[j].fd = chats[j].fd
       /\ chats'[j].pid = chats[j].pid
       /\ chats[j].disconnected => chats'[j].disconnected
       /\ chats'[j].chatClosed => chats'[j].disconnected

Forked == \A w \in Window : win[w] # "none" => win'[w] # "none"

LEMMA ListKept ==
  ASSUME ListTyped, ListInv, SameRecords, Forked
  PROVE  ListInv'
<1>1. \A i \in DOMAIN chats : chats[i].pid \in Window
  BY ChatTyped DEF Chat
<1> QED
  BY <1>1 DEF ListInv, SameRecords, Forked

LEMMA PlaceKept ==
  ASSUME PlaceInv, Forked, UNCHANGED <<use, peerOf, peer, made, at>>
  PROVE  PlaceInv'
<1>1. \A m \in Made : m.pid \in Window
  BY DEF Made
<1> QED
  BY <1>1 DEF PlaceInv, Forked

LEMMA SteadyStep ==
  ASSUME ListTyped, WindowsInv, SameRecords, Forked,
         UNCHANGED <<use, peerOf, peer, made, at>>, todo' \subseteq todo
  PROVE  WindowsInv'
<1>1. PlaceInv' /\ ListInv'
  BY ListKept, PlaceKept DEF WindowsInv
<1>2. \A i \in DOMAIN chats : InUse(i)' => InUse(i)
  BY DEF InUse, SameRecords
<1>3. OwnInv'
  BY <1>2 DEF WindowsInv, OwnInv, SameRecords
<1>4. ApartInv'
  BY <1>2 DEF WindowsInv, ApartInv, SameRecords
<1>5. StuckInv'
  BY <1>2 DEF WindowsInv, StuckInv, SameRecords
<1>6. ShowInv'
  BY DEF WindowsInv, ShowInv, SameRecords
<1> QED
  BY <1>1, <1>3, <1>4, <1>5, <1>6 DEF WindowsInv

(* The main code goes from one place to another where it handles no MSG. *)
Plain == {"select", "round", "logout"}
LEMMA PlainStep ==
  ASSUME WindowsInv, UNCHANGED <<chats, use, win, peerOf, peer, made>>,
         at \in Plain, at' \in Plain, StuckInv'
  PROVE  WindowsInv'
<1>1. at \notin {"create", "forked", "show"} /\ at' \notin {"create", "forked", "show"}
  BY DEF Plain
<1>2. \A i \in DOMAIN chats : InUse(i)' <=> InUse(i)
  BY <1>1 DEF InUse
<1>3. PlaceInv' /\ ListInv' /\ ShowInv'
  BY <1>1 DEF WindowsInv, PlaceInv, ListInv, ShowInv
<1>4. OwnInv' /\ ApartInv'
  BY <1>2 DEF WindowsInv, OwnInv, ApartInv
<1> QED
  BY <1>3, <1>4 DEF WindowsInv

(* The process ends. *)
LEMMA EndStep ==
  ASSUME NEW end \in {"loggedOut", "interrupted", "crashed"}, EndAs(end)
  PROVE  WindowsInv' /\ ListTyped'
<1>1. at' = end /\ chats' = <<>>
  BY DEF EndAs
<1>2. DOMAIN chats' = {} /\ chats' \in Seq(Chat)
  BY <1>1
<1> QED
  BY <1>1, <1>2 DEF WindowsInv, PlaceInv, ListInv, OwnInv, ApartInv, StuckInv, ShowInv, ListTyped

(* A closed number is used by no chat in use while messages are handled. *)
LEMMA NothingClosed ==
  ASSUME WindowsInv, NEW i \in DOMAIN chats, InUse(i),
         \/ at \notin {"select", "round"}
         \/ at = "round" /\ todo \cap {Stdin, Server} # {}
  PROVE  /\ use[chats[i].fd] = Near(chats[i].pid) /\ peerOf[chats[i].pid] = chats[i].name
BY DEF WindowsInv, OwnInv, StuckInv

-----------------------------------------------------------------------------
(* Steps that are steady. *)
LEMMA SameChats == ASSUME ListInv, UNCHANGED chats PROVE SameRecords
BY DEF ListInv, SameRecords

LEMMA QuietSteps ==
  ASSUME KernelTyped, ListTyped, WindowsInv,
         \/ \E w \in Window : Type(w) \/ Die(w)
         \/ CatchSigChild \/ ServerText \/ Command(FALSE)
         \/ \E f \in Fd : WindowSkipped(f) \/ WindowLine(f)
  PROVE  ListTyped' /\ WindowsInv'
<1>1. UNCHANGED <<chats, use, peerOf, peer, made>> /\ todo' \subseteq todo
  BY DEF Type, Die, CatchSigChild, ServerText, Command, WindowSkipped, WindowLine, Done,
    signalVars, mainVars
<1>2. UNCHANGED at
  BY DEF Type, Die, CatchSigChild, ServerText, Command, WindowSkipped, WindowLine, InRound,
    mainVars
<1>3. UNCHANGED win \/ \E w \in Window : win' = [win EXCEPT ![w] = "zombie"]
  BY DEF Type, Die, CatchSigChild, ServerText, Command, WindowSkipped, WindowLine
<1>4. Forked
  BY <1>3 DEF Forked, KernelTyped
<1> QED
  BY <1>1, <1>2, <1>4, SameChats, SteadyStep DEF WindowsInv, ListTyped

LEMMA ReapStep ==
  ASSUME KernelTyped, ListTyped, WindowsInv, NEW w \in Window, Reap(w)
  PROVE  ListTyped' /\ WindowsInv'
<1>1. /\ win' = [win EXCEPT ![w] = "reaped"]
      /\ UNCHANGED <<use, peerOf, peer, made, at, todo>>
      /\ chats' = IF ChatByPid(w) = 0 THEN chats ELSE MarkClosed(ChatByPid(w))
  BY DEF Reap, mainVars
<1>2. Forked
  BY <1>1 DEF Forked, KernelTyped
<1>3. ListTyped' /\ SameRecords
  <2>1. CASE ChatByPid(w) = 0
    BY <1>1, <2>1, SameChats DEF ListTyped, WindowsInv
  <2>2. CASE ChatByPid(w) # 0
    <3> DEFINE i == ChatByPid(w)
    <3>1. i \in DOMAIN chats
      BY <2>2, ChatFound
    <3>2. chats' = [chats EXCEPT ![i].disconnected = TRUE, ![i].chatClosed = TRUE]
      BY <1>1, <2>2 DEF MarkClosed
    <3> HIDE DEF i
    <3> QED
      BY <3>1, <3>2, FlagsSet DEF SameRecords, WindowsInv, ListInv
  <2> QED
    BY <2>1, <2>2
<1> QED
  BY <1>1, <1>2, <1>3, SteadyStep

LEMMA UoffStep ==
  ASSUME ListTyped, WindowsInv, NEW n \in Friend, Uoff(n)
  PROVE  ListTyped' /\ WindowsInv'
<1>1. /\ UNCHANGED <<use, win, peerOf, peer, made, at>> /\ todo' \subseteq todo
      /\ chats' = IF ChatOf(n) = 0 THEN chats
                  ELSE [chats EXCEPT ![ChatOf(n)].disconnected = TRUE]
  BY DEF Uoff, Done
<1>2. Forked
  BY <1>1 DEF Forked
<1>3. ListTyped' /\ SameRecords
  <2>1. CASE ChatOf(n) = 0
    BY <1>1, <2>1, SameChats DEF ListTyped, WindowsInv
  <2>2. CASE ChatOf(n) # 0
    <3> DEFINE i == ChatOf(n)
    <3>1. i \in DOMAIN chats
      BY <2>2, ChatFound
    <3>2. chats' = [chats EXCEPT ![i].disconnected = TRUE]
      BY <1>1, <2>2
    <3> HIDE DEF i
    <3>3. PICK e \in BOOLEAN :
            chats' = [chats EXCEPT ![i].disconnected = TRUE, ![i].chatClosed = e]
      <4>1. PICK d \in BOOLEAN, e \in BOOLEAN :
              chats' = [chats EXCEPT ![i].disconnected = d, ![i].chatClosed = e]
        BY <3>1, <3>2, OneFlagSet
      <4>2. chats'[i].disconnected = d /\ chats'[i].disconnected
        <5>1. chats[i] \in Chat
          BY <3>1, ChatTyped
        <5>2. chats'[i].disconnected = TRUE
          BY <3>1, <3>2, <5>1 DEF ListTyped, Chat
        <5> QED
          BY <3>1, <4>1, <5>2, FlagsSet
      <4> QED
        BY <4>1, <4>2
    <3> QED
      BY <3>1, <3>3, FlagsSet DEF SameRecords, WindowsInv, ListInv
  <2> QED
    BY <2>1, <2>2
<1> QED
  BY <1>1, <1>2, <1>3, SteadyStep

-----------------------------------------------------------------------------
(* select looks at every chat that is not closed, so that it only returns    *)
(* when no chat in use has a closed number.                                  *)
LEMMA SelectStep ==
  ASSUME ListTyped, WindowsInv, Select
  PROVE  ListTyped' /\ WindowsInv'
<1>1. /\ at = "select" /\ at' = "round"
      /\ UNCHANGED <<chats, use, win, peerOf, peer, made>>
      /\ \A f \in Watched : use[f] # Unused
  BY DEF Select
<1>2. \A i \in DOMAIN chats : InUse(i)' => use[chats[i].fd] # Unused
  <2> SUFFICES ASSUME NEW i \in DOMAIN chats, ~chats[i].disconnected
               PROVE  chats[i].fd \in Watched
    BY <1>1 DEF InUse
  <2>1. ~chats[i].chatClosed
    BY DEF WindowsInv, ListInv
  <2> QED
    BY <2>1 DEF Watched, OpenChats
<1>3. StuckInv'
  BY <1>1, <1>2 DEF StuckInv
<1> QED
  BY <1>1, <1>3, PlainStep DEF Plain, ListTyped

LEMMA PlainSteps ==
  ASSUME ListTyped, WindowsInv, EndRound \/ Command(TRUE) \/ LogoutDelayed
  PROVE  ListTyped' /\ WindowsInv'
<1>1. /\ UNCHANGED <<chats, use, win, peerOf, peer, made>>
      /\ at \in Plain /\ at' \in Plain
  BY DEF EndRound, Command, LogoutDelayed, InRound, Plain
<1>2. \A i \in DOMAIN chats : InUse(i)' => InUse(i)
  BY <1>1 DEF InUse, Plain
<1>3. ASSUME EndRound PROVE StuckInv'
  BY <1>1, <1>3 DEF EndRound, StuckInv
<1>4. ASSUME Command(TRUE) PROVE StuckInv'
  <2>1. at = "round" /\ todo \cap {Stdin, Server} # {}
    BY <1>4 DEF Command, InRound
  <2>2. \A i \in DOMAIN chats : InUse(i) => use[chats[i].fd] # Unused
    BY <2>1 DEF WindowsInv, StuckInv
  <2> QED
    BY <1>1, <1>2, <2>2 DEF StuckInv
<1> HIDE DEF Plain
<1>5. ASSUME LogoutDelayed PROVE StuckInv'
  <2>1. at = "logout"
    BY <1>5 DEF LogoutDelayed
  <2>2. \A i \in DOMAIN chats : InUse(i) => use[chats[i].fd] # Unused
    BY <2>1 DEF WindowsInv, StuckInv
  <2> QED
    BY <1>1, <1>2, <2>2 DEF StuckInv
<1>6. StuckInv'
  BY <1>3, <1>4, <1>5
<1> QED
  BY <1>1, <1>6, PlainStep DEF ListTyped

(* BYE, /logout, SIGINT, SIGTERM, SIGSEGV. *)
LEMMA EndSteps ==
  ASSUME LogoutAnswered \/ ServerBye \/ Interrupt \/ \E f \in Fd : WindowNull(f)
  PROVE  ListTyped' /\ WindowsInv'
BY EndStep DEF LogoutAnswered, ServerBye, Interrupt, WindowNull, Crash, LeaveAs

-----------------------------------------------------------------------------
(* A MSG: a chat that is shown as it is has its own window's socket.         *)
LEMMA MsgStep ==
  ASSUME ListTyped, WindowsInv, NEW n \in Friend, Msg(n)
  PROVE  ListTyped' /\ WindowsInv'
<1> DEFINE i == ChatOf(n)
<1>1. /\ at = "round" /\ Server \in todo /\ peer' = n
      /\ UNCHANGED <<use, win, peerOf, made>>
  BY DEF Msg, ServersTurn, InRound
<1>2. /\ i # 0 => i \in DOMAIN chats /\ chats[i].name = n
      /\ i = 0 => \A j \in DOMAIN chats : chats[j].name # n
  BY ChatFound
<1>3. \/ i = 0 /\ at' = "create" /\ UNCHANGED chats
      \/ /\ i # 0 /\ NeedsWindow(i) /\ at' = "create"
         /\ chats' = [chats EXCEPT ![i].disconnected = FALSE, ![i].chatClosed = FALSE]
      \/ i # 0 /\ ~NeedsWindow(i) /\ at' = "show" /\ UNCHANGED chats
  BY DEF Msg
<1> HIDE DEF i
<1>4. /\ ListTyped' /\ DOMAIN chats' = DOMAIN chats
      /\ \A j \in DOMAIN chats :
           /\ chats'[j].name = chats[j].name /\ chats'[j].fd = chats[j].fd
           /\ chats'[j].pid = chats[j].pid
           /\ chats[j].name # n \/ at' = "show" => chats'[j] = chats[j]
           /\ chats'[j].chatClosed => chats'[j].disconnected
  BY <1>2, <1>3, FlagsSet DEF ListTyped, WindowsInv, ListInv
<1>5. \A j \in DOMAIN chats : InUse(j)' => InUse(j) /\ chats'[j].fd = chats[j].fd
  BY <1>1, <1>3, <1>4 DEF InUse
<1>6. \A j \in DOMAIN chats : InUse(j) =>
        use[chats[j].fd] = Near(chats[j].pid) /\ peerOf[chats[j].pid] = chats[j].name
  BY <1>1, NothingClosed
<1>7. \A w : Near(w) # Unused
  BY DEF Near, Unused
<1>8. PlaceInv' /\ ListInv'
  BY <1>1, <1>3, <1>4 DEF WindowsInv, PlaceInv, ListInv
<1>9. OwnInv' /\ StuckInv'
  BY <1>1, <1>4, <1>5, <1>6, <1>7 DEF OwnInv, StuckInv
<1>10. ApartInv'
  BY <1>4, <1>5 DEF WindowsInv, ApartInv
<1>11. ShowInv'
  <2> SUFFICES ASSUME i # 0, ~NeedsWindow(i), UNCHANGED chats PROVE ShowInv'
    BY <1>3 DEF ShowInv
  <2>1. InUse(i)
    BY <1>1 DEF InUse, NeedsWindow
  <2>2. use[chats[i].fd] = Near(chats[i].pid) /\ peerOf[chats[i].pid] = n
    BY <1>2, <1>6, <2>1
  <2>3. chats[i].pid \in Window
    BY <1>2, ChatTyped DEF Chat
  <2> QED
    BY <1>1, <1>2, <2>2, <2>3 DEF ShowInv
<1> QED
  BY <1>4, <1>8, <1>9, <1>10, <1>11 DEF WindowsInv

(* The kernel gives out numbers that no chat in use has. *)
LEMMA CreateStep ==
  ASSUME KernelTyped, ListTyped, WindowsInv, NEW w \in Window, CreateChat(w)
  PROVE  ListTyped' /\ WindowsInv'
<1> DEFINE a == Lowest(FreeFds)
           b == Lowest(FreeFds \ {a})
           c == Lowest(FreeFds \ {a, b})
<1>1. a \in FreeFds /\ b \in FreeFds \ {a} /\ c \in FreeFds \ {a, b}
  BY ThreeFree DEF CreateChat
<1>2. /\ at = "create" /\ at' = "forked" /\ win[w] = "none"
      /\ UNCHANGED <<chats, peer>>
      /\ use' = [use EXCEPT ![a] = Near(w), ![b] = Far(w), ![c] = History(peer)]
      /\ made' = [fd |-> a, passed |-> b, history |-> c, pid |-> w]
      /\ win' = [win EXCEPT ![w] = "alive"]
      /\ peerOf' = [peerOf EXCEPT ![w] = peer]
  BY DEF CreateChat
<1> HIDE DEF a, b, c
<1>3. /\ \A f \in Fd : use[f] # Unused => use'[f] = use[f]
      /\ use'[a] = Near(w) /\ a \in Fd
  BY <1>1, <1>2 DEF FreeFds, KernelTyped
<1>4. /\ made' \in Made /\ made'.fd = a /\ made'.pid = w
      /\ win'[w] # "none" /\ peerOf'[w] = peer /\ peer \in Friend
  BY <1>1, <1>2 DEF FreeFds, Made, KernelTyped, WindowsInv, PlaceInv
<1>5. /\ \A v \in Window : v # w => peerOf'[v] = peerOf[v] /\ win'[v] = win[v]
      /\ \A v \in Window : win[v] # "none" => v # w
  BY <1>2 DEF KernelTyped
<1>6. \A i \in DOMAIN chats :
        /\ chats[i].pid \in Window /\ chats[i].fd \in Fd
        /\ win[chats[i].pid] # "none"
  BY ChatTyped DEF Chat, WindowsInv, ListInv
<1>7. \A i \in DOMAIN chats : InUse(i)' <=> InUse(i)
  BY <1>2 DEF InUse
<1>8. \A w1 : Near(w1) # Unused
  BY DEF Near, Unused
<1>9. \A i \in DOMAIN chats : InUse(i) =>
        use[chats[i].fd] = Near(chats[i].pid) /\ peerOf[chats[i].pid] = chats[i].name
  BY <1>2, NothingClosed
<1>10. PlaceInv'
  BY <1>2, <1>3, <1>4 DEF PlaceInv
<1>11. ListInv'
  BY <1>2, <1>4, <1>5, <1>6 DEF WindowsInv, ListInv
<1>12. OwnInv' /\ StuckInv'
  <2>1. ASSUME NEW i \in DOMAIN chats, InUse(i)
        PROVE  /\ use'[chats[i].fd] = Near(chats[i].pid) /\ use'[chats[i].fd] # Unused
               /\ peerOf'[chats[i].pid] = chats[i].name
    <3>1. use[chats[i].fd] = Near(chats[i].pid) /\ peerOf[chats[i].pid] = chats[i].name
      BY <1>9, <2>1
    <3>2. use'[chats[i].fd] = use[chats[i].fd]
      BY <1>3, <1>6, <1>8, <3>1
    <3>3. peerOf'[chats[i].pid] = peerOf[chats[i].pid]
      BY <1>5, <1>6
    <3> QED
      BY <1>8, <3>1, <3>2, <3>3
  <2> QED
    BY <1>2, <1>7, <2>1 DEF OwnInv, StuckInv
<1>13. ApartInv'
  BY <1>2, <1>7 DEF WindowsInv, ApartInv
<1>14. ShowInv'
  BY <1>2 DEF ShowInv
<1> QED
  BY <1>2, <1>10, <1>11, <1>12, <1>13, <1>14 DEF WindowsInv, ListTyped

(* No chat in use had the new window's number, so it is this chat's alone.   *)
LEMMA StoreStep ==
  ASSUME KernelTyped, ListTyped, WindowsInv, StoreChat
  PROVE  ListTyped' /\ WindowsInv'
<1>1. /\ at = "forked" /\ at' = "show"
      /\ UNCHANGED <<use, win, peerOf, peer>>
  BY DEF StoreChat
<1>2. /\ made \in Made /\ peer \in Friend
      /\ use[made.fd] = Near(made.pid) /\ peerOf[made.pid] = peer
      /\ win[made.pid] # "none" /\ made.pid \in Window
  BY <1>1 DEF WindowsInv, PlaceInv, Made
<1>3. PICK k \in DOMAIN chats' :
        /\ chats'[k].name = peer /\ chats'[k].fd = made.fd /\ chats'[k].pid = made.pid
        /\ chats'[k].chatClosed => chats'[k].disconnected
        /\ \A j \in DOMAIN chats' : j # k =>
             /\ j \in DOMAIN chats /\ chats'[j] = chats[j] /\ chats[j].name # peer
  BY <1>2, ChatStored DEF WindowsInv
<1>4. ListTyped'
  BY <1>2, ChatStored DEF WindowsInv
<1>5. \A j \in DOMAIN chats' : j # k /\ InUse(j)' => InUse(j)
  BY <1>1, <1>3 DEF InUse
<1>6. \A j \in DOMAIN chats : InUse(j) =>
        use[chats[j].fd] = Near(chats[j].pid) /\ peerOf[chats[j].pid] = chats[j].name
  BY <1>1, NothingClosed
<1>7. /\ \A v, w : Near(v) = Near(w) => v = w
      /\ \A w : Near(w) # Unused
  BY DEF Near, Unused
<1>8. PlaceInv'
  BY <1>1, <1>2 DEF PlaceInv
<1>9. ListInv'
  BY <1>1, <1>2, <1>3 DEF WindowsInv, ListInv
<1>10. \A j \in DOMAIN chats' : InUse(j)' =>
         use[chats'[j].fd] = Near(chats'[j].pid) /\ peerOf[chats'[j].pid] = chats'[j].name
  BY <1>2, <1>3, <1>5, <1>6
<1>11. OwnInv' /\ StuckInv'
  BY <1>1, <1>7, <1>10 DEF OwnInv, StuckInv
<1>12. ApartInv'
  <2> SUFFICES ASSUME NEW i \in DOMAIN chats', NEW j \in DOMAIN chats', InUse(i)', InUse(j)',
                      chats'[i].fd = chats'[j].fd
               PROVE  i = j
    BY DEF ApartInv
  <2>1. Near(chats'[i].pid) = Near(chats'[j].pid)
    BY <1>10
  <2>2. chats'[i].name = chats'[j].name
    BY <1>7, <1>10, <2>1
  <2> QED
    BY <1>9, <2>2 DEF ListInv
<1>13. ShowInv'
  BY <1>1, <1>2, <1>3 DEF ShowInv
<1> QED
  BY <1>4, <1>8, <1>9, <1>11, <1>12, <1>13 DEF WindowsInv

LEMMA ShowStep ==
  ASSUME ListTyped, WindowsInv, ShowMsg
  PROVE  ListTyped' /\ WindowsInv'
<1>1. /\ at = "show" /\ at' = "round"
      /\ UNCHANGED <<chats, use, win, peerOf, made>>
  BY DEF ShowMsg
<1>2. \A i \in DOMAIN chats : InUse(i)' <=> InUse(i)
  BY <1>1 DEF InUse
<1>3. \A i \in DOMAIN chats : InUse(i) =>
        use[chats[i].fd] = Near(chats[i].pid) /\ peerOf[chats[i].pid] = chats[i].name
  BY <1>1, NothingClosed
<1>4. \A w : Near(w) # Unused
  BY DEF Near, Unused
<1>5. PlaceInv' /\ ListInv' /\ ShowInv'
  BY <1>1 DEF WindowsInv, PlaceInv, ListInv, ShowInv
<1>6. OwnInv' /\ StuckInv'
  BY <1>1, <1>2, <1>3, <1>4 DEF OwnInv, StuckInv
<1>7. ApartInv'
  BY <1>1, <1>2 DEF WindowsInv, ApartInv
<1> QED
  BY <1>1, <1>5, <1>6, <1>7 DEF WindowsInv, ListTyped

(* Whatever numbers closeChatWindow closes, those of other chats included,   *)
(* the loop is past the server's and the user's input of this round.         *)
LEMMA CloseStep ==
  ASSUME KernelTyped, ListTyped, WindowsInv, NEW f \in Fd, CloseChatWindow(f)
  PROVE  ListTyped' /\ WindowsInv'
<1> DEFINE i == ChatByFd(f)
           shut == {chats[i].fd, chats[i].passed}
<1>1. /\ at = "round" /\ at' = "round" /\ todo \cap {Stdin, Server} = {} /\ todo' \subseteq todo
      /\ UNCHANGED <<peerOf, peer, made>>
      /\ use' = [g \in Fd |-> IF g \in shut THEN Unused ELSE use[g]]
      /\ chats' = [chats EXCEPT ![i].chatClosed = TRUE]
      /\ i # 0 /\ chats[i].disconnected
  BY DEF CloseChatWindow, ChatsTurn, InRound, Done, TakesLines
<1>2. UNCHANGED win \/ \E w : win[w] = "alive" /\ win' = [win EXCEPT ![w] = "killed"]
  BY DEF CloseChatWindow
<1>3. i \in DOMAIN chats
  BY <1>1, ChatFound
<1>4. \A g \in Fd : use'[g] \in {Unused, use[g]}
  BY <1>1
<1> HIDE DEF i, shut
<1>5. Forked
  BY <1>2 DEF Forked, KernelTyped
<1>6. ListTyped' /\ SameRecords
  <2>1. PICK d \in BOOLEAN, e \in BOOLEAN :
          /\ chats' = [chats EXCEPT ![i].disconnected = d, ![i].chatClosed = e]
          /\ d \in {TRUE, chats[i].disconnected}
    BY <1>1, <1>3, OneFlagSet
  <2>2. d
    BY <1>1, <2>1
  <2> QED
    BY <1>3, <2>1, <2>2, FlagsSet DEF SameRecords, WindowsInv, ListInv
<1>7. \A j \in DOMAIN chats : InUse(j)' => InUse(j)
  BY <1>1, <1>6 DEF InUse, SameRecords
<1>8. \A j \in DOMAIN chats : chats[j].fd \in Fd
  BY ChatTyped DEF Chat
<1>9. PlaceInv' /\ ShowInv'
  BY <1>1 DEF PlaceInv, ShowInv
<1>10. ListInv'
  BY <1>5, <1>6, ListKept DEF WindowsInv
<1>11. OwnInv'
  BY <1>1, <1>4, <1>6, <1>7, <1>8 DEF WindowsInv, OwnInv, SameRecords
<1>12. ApartInv'
  BY <1>6, <1>7 DEF WindowsInv, ApartInv, SameRecords
<1>13. StuckInv'
  BY <1>1 DEF StuckInv
<1> QED
  BY <1>6, <1>9, <1>10, <1>11, <1>12, <1>13 DEF WindowsInv

-----------------------------------------------------------------------------
LEMMA WindowsStep ==
  ASSUME KernelTyped, ListTyped, WindowsInv, LoopStep
  PROVE  ListTyped' /\ WindowsInv'
<1>1. ASSUME NEW w \in Window, Reap(w) PROVE ListTyped' /\ WindowsInv'
  BY <1>1, ReapStep
<1>2. ASSUME NEW w \in Window, CreateChat(w) PROVE ListTyped' /\ WindowsInv'
  BY <1>2, CreateStep
<1>3. ASSUME NEW n \in Friend, Uoff(n) PROVE ListTyped' /\ WindowsInv'
  BY <1>3, UoffStep
<1>4. ASSUME NEW n \in Friend, Msg(n) PROVE ListTyped' /\ WindowsInv'
  BY <1>4, MsgStep
<1>5. ASSUME NEW f \in Fd, CloseChatWindow(f) PROVE ListTyped' /\ WindowsInv'
  BY <1>5, CloseStep
<1>6. ASSUME Select PROVE ListTyped' /\ WindowsInv'
  BY <1>6, SelectStep
<1>7. ASSUME StoreChat PROVE ListTyped' /\ WindowsInv'
  BY <1>7, StoreStep
<1>8. ASSUME ShowMsg PROVE ListTyped' /\ WindowsInv'
  BY <1>8, ShowStep
<1>9. ASSUME NEW isLogout \in BOOLEAN, Command(isLogout) PROVE ListTyped' /\ WindowsInv'
  BY <1>9, QuietSteps, PlainSteps
<1> QED
  BY <1>1, <1>2, <1>3, <1>4, <1>5, <1>6, <1>7, <1>8, <1>9, QuietSteps, PlainSteps, EndSteps
  DEF LoopStep, Main

-----------------------------------------------------------------------------
Use == [kind : {"unused", "near", "far", "history"}, of : Window \cup Friend \cup {Nobody}]

LEMMA Uses ==
  /\ Unused \in Use
  /\ \A w \in Window : Near(w) \in Use /\ Far(w) \in Use
  /\ \A n \in Friend : History(n) \in Use
BY DEF Use, Unused, Near, Far, History

LEMMA KernelTypedStep ==
  ASSUME KernelTyped, ListTyped, WindowsInv, LoopStep
  PROVE  KernelTyped'
<1> USE DEF KernelTyped
<1>1. ASSUME NEW w \in Window, Type(w) \/ Die(w) \/ Reap(w) PROVE KernelTyped'
  BY <1>1 DEF Type, Die, Reap
<1>2. ASSUME NEW end, EndAs(end), win' \in [Window -> {"none", "alive", "killed", "zombie", "reaped"}]
      PROVE KernelTyped'
  BY <1>2, Uses DEF EndAs, Use
<1>3. ASSUME NEW end, LeaveAs(end) PROVE KernelTyped'
  BY <1>2, <1>3 DEF LeaveAs
<1>4. ASSUME NEW f \in Fd, WindowNull(f) PROVE KernelTyped'
  BY <1>2, <1>4 DEF WindowNull, Crash
<1>5. ASSUME NEW w \in Window, CreateChat(w) PROVE KernelTyped'
  <2> DEFINE a == Lowest(FreeFds)
             b == Lowest(FreeFds \ {a})
             c == Lowest(FreeFds \ {a, b})
  <2>1. peer \in Friend
    BY <1>5 DEF CreateChat, WindowsInv, PlaceInv
  <2>2. /\ use' = [use EXCEPT ![a] = Near(w), ![b] = Far(w), ![c] = History(peer)]
        /\ win' = [win EXCEPT ![w] = "alive"] /\ peerOf' = [peerOf EXCEPT ![w] = peer]
        /\ UNCHANGED typed
    BY <1>5 DEF CreateChat
  <2> HIDE DEF a, b, c
  <2> QED
    BY <2>1, <2>2, Uses DEF Use
<1>6. ASSUME NEW f \in Fd, CloseChatWindow(f) PROVE KernelTyped'
  BY <1>6, Uses DEF CloseChatWindow, Use
<1>7. ASSUME NEW f \in Fd, WindowSkipped(f) \/ WindowLine(f) PROVE KernelTyped'
  BY <1>7 DEF WindowSkipped, WindowLine
<1>8. ASSUME \/ Select \/ EndRound \/ LogoutDelayed \/ ServerText \/ StoreChat \/ ShowMsg
             \/ CatchSigChild
             \/ \E isLogout \in BOOLEAN : Command(isLogout)
             \/ \E n \in Friend : Uoff(n) \/ Msg(n)
      PROVE KernelTyped'
  BY <1>8 DEF Select, EndRound, LogoutDelayed, ServerText, StoreChat, ShowMsg, CatchSigChild,
    Command, Uoff, Msg
<1> QED
  BY <1>1, <1>3, <1>4, <1>5, <1>6, <1>7, <1>8
  DEF LoopStep, Main, LogoutAnswered, ServerBye, Interrupt

LEMMA MainTypedStep ==
  ASSUME KernelTyped, MainTyped, ListTyped, WindowsInv, LoopStep
  PROVE  MainTyped'
<1> USE DEF MainTyped
<1>1. ASSUME NEW w \in Window, Type(w) \/ Die(w) \/ Reap(w) PROVE MainTyped'
  BY <1>1 DEF Type, Die, Reap, signalVars, mainVars
<1>2. ASSUME NEW end \in {"loggedOut", "interrupted", "crashed"}, EndAs(end) PROVE MainTyped'
  BY <1>2 DEF EndAs
<1>3. ASSUME LogoutAnswered \/ ServerBye \/ Interrupt \/ \E f \in Fd : WindowNull(f)
      PROVE MainTyped'
  BY <1>2, <1>3 DEF LogoutAnswered, ServerBye, Interrupt, WindowNull, LeaveAs, Crash
<1>4. ASSUME NEW w \in Window, CreateChat(w) PROVE MainTyped'
  <2>1. /\ at' = "forked" /\ UNCHANGED <<signalVars, todo, peer>>
    BY <1>4 DEF CreateChat
  <2>2. made' \in Made
    <3>1. KernelTyped' /\ WindowsInv'
      BY <1>4, KernelTypedStep, CreateStep DEF LoopStep, Main
    <3> QED
      BY <2>1, <3>1 DEF WindowsInv, PlaceInv
  <2> QED
    BY <2>1, <2>2 DEF signalVars
<1>5. ASSUME Select PROVE MainTyped'
  <2>1. Readable \subseteq Fd
    BY ChatTyped DEF Readable, Watched, OpenChats, Chat
  <2> QED
    BY <1>5, <2>1 DEF Select, signalVars
<1>6. ASSUME NEW f \in Fd, WindowSkipped(f) \/ WindowLine(f) \/ CloseChatWindow(f) PROVE MainTyped'
  BY <1>6 DEF WindowSkipped, WindowLine, CloseChatWindow, Done, signalVars
<1>7. ASSUME NEW isLogout \in BOOLEAN, Command(isLogout) PROVE MainTyped'
  BY <1>7 DEF Command, Done, signalVars
<1>8. ASSUME NEW n \in Friend, Uoff(n) \/ Msg(n) PROVE MainTyped'
  BY <1>8 DEF Uoff, Msg, Done, signalVars
<1>9. ASSUME EndRound \/ LogoutDelayed \/ ServerText \/ StoreChat \/ ShowMsg \/ CatchSigChild
      PROVE MainTyped'
  BY <1>9 DEF EndRound, LogoutDelayed, ServerText, StoreChat, ShowMsg, CatchSigChild, Done,
    signalVars, mainVars
<1> QED
  BY <1>1, <1>3, <1>4, <1>5, <1>6, <1>7, <1>8, <1>9 DEF LoopStep, Main

-----------------------------------------------------------------------------
ClientInv == LoginTyped /\ KernelTyped /\ MainTyped /\ ListTyped /\ WindowsInv

LEMMA ClientInvInit == Init => ClientInv
<1> SUFFICES ASSUME Init PROVE ClientInv
  OBVIOUS
<1>1. LoginTyped
  BY MessagesTyped, ServerMessages DEF Init, LoginInit, LoginTyped
<1>2. chats = <<>> /\ chats \in Seq(Chat) /\ DOMAIN chats = {}
  BY DEF Init, ChatsInit
<1>3. KernelTyped /\ MainTyped
  BY Uses DEF Init, ChatsInit, KernelTyped, MainTyped, Use
<1>4. WindowsInv
  BY <1>2 DEF Init, ChatsInit, WindowsInv, PlaceInv, ListInv, OwnInv, ApartInv, StuckInv, ShowInv
<1> QED
  BY <1>1, <1>2, <1>3, <1>4 DEF ClientInv, ListTyped

LEMMA WindowsFrame ==
  ASSUME KernelTyped, MainTyped, ListTyped, WindowsInv, UNCHANGED chatVars
  PROVE  KernelTyped' /\ MainTyped' /\ ListTyped' /\ WindowsInv'
<1>1. UNCHANGED <<chats, use, win, peerOf, typed, sig, handling, at, todo, peer, made>>
  BY DEF chatVars, signalVars, mainVars
<1>2. KernelTyped' /\ MainTyped' /\ ListTyped'
  BY <1>1 DEF KernelTyped, MainTyped, ListTyped
<1>3. WindowsInv'
  BY <1>1, SameChats, SteadyStep DEF WindowsInv, Forked
<1> QED
  BY <1>2, <1>3

LEMMA ClientInvInductive == ClientInv /\ [Next]_vars => ClientInv'
<1> SUFFICES ASSUME ClientInv, [Next]_vars PROVE ClientInv'
  OBVIOUS
<1>1. CASE LoginStep
  BY <1>1, LoginTypedStep, LoginStepFrame, WindowsFrame DEF ClientInv
<1>2. CASE LoopStep
  <2>1. UNCHANGED <<new, cpc, spc, toServer, toClient>>
    BY <1>2, LoopStepFrame DEF loginVars
  <2>2. LoginTyped'
    BY <2>1 DEF ClientInv, LoginTyped
  <2> QED
    BY <1>2, <2>2, WindowsStep, KernelTypedStep, MainTypedStep DEF ClientInv
<1>3. CASE UNCHANGED vars
  <2>1. UNCHANGED chatVars /\ UNCHANGED <<new, cpc, spc, toServer, toClient>>
    BY <1>3 DEF vars, loginVars
  <2> QED
    BY <2>1, WindowsFrame DEF ClientInv, LoginTyped
<1> QED
  BY <1>1, <1>2, <1>3, NextSteps

LEMMA ClientInvAlways == Spec => []ClientInv
<1> QED
  BY ClientInvInit, ClientInvInductive, PTL DEF Spec

(* The list, the kernel's table, the windows and the messages on their way   *)
(* are what the client's code takes them for.                                *)
THEOREM TypeCorrect == Spec => []TypeOK
<1>1. ClientInv => TypeOK
  BY TypeParts DEF ClientInv
<1> QED
  BY <1>1, ClientInvAlways, PTL

(* Two chats in use never carry the same number, and a number one of them    *)
(* carries is its own window's socket or closed (createChat, closeChatWindow *)
(* and removeChatPid), for any friends, windows and table of descriptors.    *)
THEOREM ChatsStayApart == Spec => []LiveChatsApart
<1>1. ClientInv => LiveChatsApart
  <2> SUFFICES ASSUME ClientInv, NEW i \in DOMAIN chats, InUse(i)
               PROVE  /\ \/ use[chats[i].fd] = Unused
                         \/ \E w \in Window :
                              use[chats[i].fd] = Near(w) /\ peerOf[w] = chats[i].name
                      /\ \A j \in DOMAIN chats :
                           j # i /\ InUse(j) => chats[j].fd # chats[i].fd
    BY DEF LiveChatsApart
  <2>1. chats[i].pid \in Window
    BY ChatTyped DEF ClientInv, Chat
  <2>2. /\ peerOf[chats[i].pid] = chats[i].name
        /\ use[chats[i].fd] \in {Unused, Near(chats[i].pid)}
    BY DEF ClientInv, WindowsInv, OwnInv
  <2>3. \A j \in DOMAIN chats : j # i /\ InUse(j) => chats[j].fd # chats[i].fd
    BY DEF ClientInv, WindowsInv, ApartInv
  <2> QED
    BY <2>1, <2>2, <2>3
<1> QED
  BY <1>1, ClientInvAlways, PTL

(* A line that is read from a window goes to the friend the window was       *)
(* opened for (selectLoop, getChatByFd, handleChatInput).                    *)
THEOREM LinesAlwaysReachFriend == Spec => []LinesReachFriend
<1>1. ClientInv => LinesReachFriend
  <2> SUFFICES ASSUME ClientInv, at = "round", NEW f \in todo \cap Fd, NEW i, i = ChatByFd(f),
                      i # 0, TakesLines(i), use[f] # Unused
               PROVE  \E w \in Window : use[f] = Near(w) /\ peerOf[w] = chats[i].name
    BY DEF LinesReachFriend
  <2>1. i \in DOMAIN chats /\ chats[i].fd = f
    BY ChatFound DEF ClientInv
  <2>2. InUse(i)
    BY DEF InUse, TakesLines
  <2>3. chats[i].pid \in Window
    BY <2>1, ChatTyped DEF ClientInv, Chat
  <2>4. use[f] = Near(chats[i].pid) /\ peerOf[chats[i].pid] = chats[i].name
    BY <2>1, <2>2 DEF ClientInv, WindowsInv, OwnInv
  <2> QED
    BY <2>3, <2>4
<1> QED
  BY <1>1, ClientInvAlways, PTL

(* The text of a MSG is written to a socket whose window was opened for the  *)
(* friend who talks (handleMsgReceived, sendMsgToChat).                      *)
THEOREM MessagesAlwaysReachWindow == Spec => []MsgReachesWindow
<1>1. ClientInv => MsgReachesWindow
  <2> SUFFICES ASSUME ClientInv, at = "show"
               PROVE  /\ ChatOf(peer) # 0
                      /\ \E w \in Window :
                           use[chats[ChatOf(peer)].fd] = Near(w) /\ peerOf[w] = peer
    BY DEF MsgReachesWindow
  <2>1. PICK i \in DOMAIN chats :
          /\ chats[i].name = peer
          /\ \E w \in Window : use[chats[i].fd] = Near(w) /\ peerOf[w] = peer
    BY DEF ClientInv, WindowsInv, ShowInv
  <2>2. ChatOf(peer) # 0
    BY <2>1, ChatFound DEF ClientInv
  <2>3. ChatOf(peer) = i
    BY <2>1, <2>2, ChatFound DEF ClientInv, WindowsInv, ListInv
  <2> QED
    BY <2>1, <2>2, <2>3
<1> QED
  BY <1>1, ClientInvAlways, PTL

-----------------------------------------------------------------------------
(* The login dialogue, place by place: what each side waits for and what is  *)
(* on its way, as long as the server lives.  A user's messages are named by  *)
(* what he asks for.                                                         *)
ClaimSent == IF new THEN "IAMNEW" ELSE "IAM"
ClaimTaken == IF new THEN "HINEW" ELSE "AUTH"
SecretSent == IF new THEN "NEWPASS" ELSE "PASS"
SecretTaken == IF new THEN "SSAPWEN" ELSE "SSAP"

Places(s, toS, toC) == spc = s /\ toServer = toS /\ toClient = toC
HiComes(ms) == ms # <<>> /\ Head(ms) = "HI"

LoginInv ==
  spc # "gone" =>
    /\ cpc = "start" => Places("wolfie", <<>>, <<>>)
    /\ cpc = "eiflow" =>
         Places("wolfie", <<"WOLFIE">>, <<>>) \/ Places("iam", <<>>, <<"EIFLOW">>)
    /\ cpc = "claim" =>
         \/ Places("iam", <<ClaimSent>>, <<>>)
         \/ Places("secret", <<>>, <<ClaimTaken>>)
         \/ Places("out", <<>>, <<"ERR", "BYE">>)
    /\ cpc = "prompt" => Places("secret", <<>>, <<>>)
    /\ cpc = "password" =>
         \/ Places("secret", <<SecretSent>>, <<>>)
         \/ Places("hi", <<>>, <<SecretTaken>>)
         \/ /\ spc \in {"motd", "in"} /\ toClient # <<>>
            /\ Head(toClient) = SecretTaken /\ HiComes(Tail(toClient))
         \/ Places("out", <<>>, <<"ERR", "BYE">>)
    /\ cpc = "hi" =>
         \/ Places("hi", <<>>, <<>>)
         \/ spc \in {"motd", "in"} /\ HiComes(toClient)
    /\ cpc = "motd" => spc \in {"motd", "in"}
    /\ cpc \in {"bye", "refused"} => spc = "out"
    /\ cpc # "byeHi"

LEMMA HeadStays ==
  ASSUME NEW s \in Seq(Verb), NEW t \in Seq(Verb), s # <<>>
  PROVE  /\ s \o t # <<>> /\ Head(s \o t) = Head(s)
         /\ Tail(s \o t) = Tail(s) \o t
         /\ Tail(s) \in Seq(Verb)
<1> HIDE DEF Verb
<1>1. Len(s) > 0 /\ Len(s \o t) = Len(s) + Len(t) /\ (s \o t)[1] = s[1]
  OBVIOUS
<1>2. /\ s \o t # <<>>
      /\ Head(s \o t) = Head(s)
      /\ Tail(s) \in Seq(Verb)
  BY <1>1
<1>3. Tail(s \o t) = Tail(s) \o t
  <2>1. Tail(s \o t) \in Seq(Verb) /\ Tail(s) \o t \in Seq(Verb)
    BY <1>2
  <2>2. Len(Tail(s \o t)) = Len(Tail(s) \o t)
    BY <1>1
  <2>3. \A i \in 1..Len(Tail(s) \o t) : Tail(s \o t)[i] = (Tail(s) \o t)[i]
    BY <1>1
  <2> QED
    BY <2>1, <2>2, <2>3
<1> QED
  BY <1>2, <1>3

LEMMA Singles ==
  ASSUME NEW m, NEW n
  PROVE  /\ <<m>> # <<>> /\ Head(<<m>>) = m /\ Tail(<<m>>) = <<>>
         /\ Append(<<>>, m) = <<m>>
         /\ <<>> \o <<>> = <<>> /\ <<>> \o <<m>> = <<m>> /\ <<>> \o <<m, n>> = <<m, n>>
OBVIOUS

LEMMA HiStays ==
  ASSUME NEW s \in Seq(Verb), NEW t \in Seq(Verb), HiComes(s)
  PROVE  HiComes(s \o t)
BY HeadStays DEF HiComes

LEMMA LoginInvClient ==
  ASSUME LoginTyped, LoginInv, ClientLogin \/ QuitLogin
  PROVE  LoginInv'
<1> HIDE DEF Verb
<1> USE DEF LoginInv, Places
<1>1. ASSUME SendWolfie PROVE LoginInv'
  BY <1>1 DEF SendWolfie, Send
<1>2. ASSUME SendPassword PROVE LoginInv'
  BY <1>2 DEF SendPassword, Send, SecretSent
<1>3. ASSUME ServerLost \/ QuitLogin PROVE LoginInv'
  BY <1>3 DEF ServerLost, QuitLogin
<1>4. ASSUME NEW m \in Verb, ReadEiflow(m) PROVE LoginInv'
  <2>1. spc # "gone" => Places("iam", <<>>, <<"EIFLOW">>)
    BY <1>4 DEF ReadEiflow, Receive, Take
  <2>2. cpc' = "claim" /\ spc' = spc /\ new' = new
    BY <1>4 DEF ReadEiflow, Receive
  <2>3. spc # "gone" => Places("iam", <<ClaimSent>>, <<>>)'
    <3>1. ClaimSent' = ClaimSent /\ toServer' = Append(toServer, ClaimSent)
      BY <1>4, <2>2 DEF ReadEiflow, Send, ClaimSent
    <3>2. toClient' = Tail(toClient)
      BY <1>4 DEF ReadEiflow, Receive
    <3> QED
      BY <2>1, <2>2, <3>1, <3>2, Singles
  <2> QED
    BY <2>2, <2>3
<1>5. ASSUME NEW m \in Verb, ReadClaimAnswer(m) PROVE LoginInv'
  BY <1>5 DEF ReadClaimAnswer, Receive, Take, ClaimSent, ClaimTaken
<1>6. ASSUME NEW m \in Verb, ReadPasswordAnswer(m) PROVE LoginInv'
  BY <1>6 DEF ReadPasswordAnswer, Receive, Take, SecretSent, SecretTaken, HiComes
<1>7. ASSUME NEW m \in Verb, ReadHi(m) PROVE LoginInv'
  BY <1>7 DEF ReadHi, Receive, Take, EnterLoop, HiComes
<1>8. ASSUME NEW m \in Verb, ReadMotd(m) PROVE LoginInv'
  BY <1>8 DEF ReadMotd, Take, EnterLoop
<1>9. ASSUME NEW m \in Verb, ReadBye(m) PROVE LoginInv'
  BY <1>9 DEF ReadBye, Receive, Take, EnterLoop
<1> QED
  BY <1>1, <1>2, <1>3, <1>4, <1>5, <1>6, <1>7, <1>8, <1>9 DEF ClientLogin

LEMMA LoginInvServer ==
  ASSUME LoginTyped, LoginInv, ServerLogin \/ RelayEarly \/ ServerStops
  PROVE  LoginInv'
<1> HIDE DEF Verb
<1> USE DEF LoginInv, Places
<1>1. ASSUME NEW m \in Verb, ServerWolfie(m) PROVE LoginInv'
  <2>1. cpc' = cpc /\ new' = new /\ spc = "wolfie" /\ spc' = "iam" /\ toServer # <<>>
    BY <1>1 DEF ServerWolfie, Serve, Dialogue
  <2>2. cpc \notin {"start", "claim", "prompt", "password", "hi", "motd", "bye", "byeHi", "refused"}
    BY <2>1
  <2>3. ASSUME cpc = "eiflow" PROVE Places("iam", <<>>, <<"EIFLOW">>)'
    <3>1. toServer = <<"WOLFIE">> /\ toClient = <<>>
      BY <2>1, <2>3
    <3>2. m = "WOLFIE" /\ toServer' = <<>> /\ toClient' = <<>> \o <<"EIFLOW">>
      BY <1>1, <3>1, Singles DEF ServerWolfie, Serve, Reply
    <3> QED
      BY <2>1, <3>2, Singles
  <2> QED
    BY <2>1, <2>2, <2>3
<1>2. ASSUME NEW m \in Verb, NEW ok \in BOOLEAN, ServerClaim(m, ok) PROVE LoginInv'
  <2>1. cpc' = cpc /\ new' = new /\ spc = "iam" /\ toServer # <<>>
    BY <1>2 DEF ServerClaim, Serve, Dialogue
  <2>2. cpc \in {"claim"} \cup ClientEnded \cup {"loop"}
    BY <2>1 DEF LoginTyped
  <2>3. cpc # "refused"
    BY <2>1
  <2>4. ASSUME cpc = "claim" PROVE LoginInv'
    <3>1. toServer = <<ClaimSent>> /\ toClient = <<>>
      BY <2>1, <2>4
    <3>2. m = ClaimSent /\ toServer' = <<>>
      BY <1>2, <3>1, Singles DEF ServerClaim, Serve
    <3>3. \/ spc' = "secret" /\ toClient' = <<ClaimTaken>>
          \/ spc' = "out" /\ toClient' = <<"ERR", "BYE">>
      BY <1>2, <3>1, <3>2, Singles DEF ServerClaim, Reply, Refused, ClaimSent, ClaimTaken
    <3> QED
      BY <2>1, <2>4, <3>2, <3>3 DEF ClaimTaken
  <2> QED
    BY <2>1, <2>2, <2>3, <2>4 DEF ClientEnded
<1>3. ASSUME NEW m \in Verb, NEW ok \in BOOLEAN, ServerSecret(m, ok) PROVE LoginInv'
  <2>1. cpc' = cpc /\ new' = new /\ spc = "secret" /\ toServer # <<>>
    BY <1>3 DEF ServerSecret, Serve, Dialogue
  <2>2. cpc \in {"password"} \cup ClientEnded \cup {"loop"}
    BY <2>1 DEF LoginTyped
  <2>3. cpc # "refused"
    BY <2>1
  <2>4. ASSUME cpc = "password" PROVE LoginInv'
    <3>1. toServer = <<SecretSent>> /\ toClient = <<>>
      BY <2>1, <2>4
    <3>2. m = SecretSent /\ toServer' = <<>>
      BY <1>3, <3>1, Singles DEF ServerSecret, Serve
    <3>3. \/ spc' = "hi" /\ toClient' = <<SecretTaken>>
          \/ spc' = "out" /\ toClient' = <<"ERR", "BYE">>
      BY <1>3, <3>1, <3>2, Singles DEF ServerSecret, Reply, Refused, SecretSent, SecretTaken
    <3> QED
      BY <2>1, <2>4, <3>2, <3>3 DEF SecretTaken
  <2> QED
    BY <2>1, <2>2, <2>3, <2>4 DEF ClientEnded
<1>4. ASSUME ServerHi PROVE LoginInv'
  BY <1>4, ServerMessages, HeadStays DEF ServerHi, Dialogue, Reply, HiComes, LoginTyped,
    SecretTaken
<1>5. ASSUME NEW m \in {"MOTD", "MSG"}, spc = "motd", spc' \in {"motd", "in"}, Dialogue,
             Reply(<<m>>)
      PROVE  LoginInv'
  <2>1. <<m>> \in Seq(Verb) /\ toClient \in Seq(Verb)
    BY ServerMessages DEF LoginTyped
  <2>2. ASSUME cpc = "password" PROVE LoginInv'
    <3>1. toClient # <<>> /\ Head(toClient) = SecretTaken /\ HiComes(Tail(toClient))
      BY <1>5, <2>2
    <3>2. toClient' = toClient \o <<m>>
      BY <1>5 DEF Reply
    <3>3. /\ toClient' # <<>> /\ Head(toClient') = SecretTaken
          /\ Tail(toClient') = Tail(toClient) \o <<m>> /\ Tail(toClient) \in Seq(Verb)
      BY <2>1, <3>1, <3>2, HeadStays
    <3>4. HiComes(Tail(toClient) \o <<m>>)
      BY <2>1, <3>1, <3>3, HiStays
    <3>5. HiComes(Tail(toClient'))
      BY <3>3, <3>4
    <3> QED
      BY <1>5, <2>2, <3>3, <3>5 DEF Dialogue, SecretTaken
  <2>3. ASSUME cpc = "hi" PROVE LoginInv'
    BY <1>5, <2>1, <2>3, HiStays DEF Dialogue, Reply
  <2> QED
    BY <1>5, <2>2, <2>3 DEF Dialogue
<1>6. ASSUME ServerMotd \/ RelayEarly PROVE LoginInv'
  BY <1>5, <1>6, Zenon DEF ServerMotd, RelayEarly
<1>7. ASSUME ClientLost \/ ServerStops PROVE LoginInv'
  BY <1>7 DEF ClientLost, ServerStops, Dialogue, ClientEnded
<1> QED
  BY <1>1, <1>2, <1>3, <1>4, <1>6, <1>7 DEF ServerLogin

LEMMA LoginInvInductive ==
  ASSUME LoginTyped, LoginInv, [Next]_vars
  PROVE  LoginInv'
<1>1. ASSUME LoginStep PROVE LoginInv'
  BY <1>1, LoginInvClient, LoginInvServer DEF LoginStep
<1>2. ASSUME UNCHANGED loginVars PROVE LoginInv'
  BY <1>2 DEF loginVars, LoginInv, Places, ClaimSent, ClaimTaken, SecretSent, SecretTaken
<1> QED
  BY <1>1, <1>2, NextSteps, LoopStepFrame DEF vars

(* A client goes on to its select loop only with a session, and ends after a *)
(* refusal only without one, unless the server has died (client.c            *)
(* handleLoginProtocol and server.c loginProtocol).                          *)
THEOREM LoginsAgree == Spec => LoginAgrees
<1>1. Init => LoginInv
  BY DEF Init, LoginInit, LoginInv, Places
<1>2. ASSUME LoginTyped, LoginInv, [Next]_vars
      PROVE  [/\ cpc # "loop" /\ cpc' = "loop" => spc \in {"motd", "in", "gone"}
              /\ cpc' = "refused" => spc \in {"out", "gone"}]_vars
  <2> DEFINE Agrees == /\ cpc # "loop" /\ cpc' = "loop" => spc \in {"motd", "in", "gone"}
                       /\ cpc' = "refused" => spc \in {"out", "gone"}
  <2>1. ASSUME cpc' = cpc PROVE Agrees
    BY <1>2, <2>1 DEF LoginInv
  <2>2. ASSUME NEW m \in Verb, ReadHi(m) \/ ReadMotd(m) PROVE Agrees
    BY <1>2, <2>2 DEF LoginInv, Places, HiComes, ReadHi, ReadMotd, Receive, Take, EnterLoop
  <2>3. ASSUME NEW m \in Verb, ReadBye(m) PROVE Agrees
    BY <1>2, <2>3 DEF LoginInv, ReadBye, Receive, EnterLoop
  <2>4. ASSUME ~\E m \in Verb : ReadHi(m) \/ ReadMotd(m) \/ ReadBye(m), ClientLogin \/ QuitLogin
        PROVE  cpc' \notin {"loop", "refused"}
    BY <2>4 DEF ClientLogin, QuitLogin, SendWolfie, SendPassword, ServerLost, ReadEiflow,
      ReadClaimAnswer, ReadPasswordAnswer
  <2>5. ASSUME ServerLogin \/ RelayEarly \/ ServerStops PROVE cpc' = cpc
    BY <2>5 DEF ServerLogin, ServerHi, ServerMotd, ClientLost, ServerWolfie, ServerClaim,
      ServerSecret, RelayEarly, ServerStops, Dialogue
  <2>6. ASSUME LoopStep \/ UNCHANGED vars PROVE cpc' = cpc
    BY <2>6, LoopStepFrame DEF loginVars, vars
  <2>7. Agrees
    BY <1>2, <2>1, <2>2, <2>3, <2>4, <2>5, <2>6, NextSteps DEF LoginStep
  <2> QED
    BY <2>7
<1> QED
  BY <1>1, <1>2, LoginInvInductive, ClientInvAlways, PTL DEF Spec, LoginAgrees, ClientInv
=============================================================================
