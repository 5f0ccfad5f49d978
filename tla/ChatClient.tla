----------------------------- MODULE ChatClient -----------------------------
(***************************************************************************)
(* One chat client, hw6/client.c: its dialogue with the server's login     *)
(* thread (handleLoginProtocol or handleNewUserLoginProtocol against       *)
(* loginProtocol in server.c), and after that its select loop with the     *)
(* list of chats, one xterm window per friend behind a socketpair.         *)
(*                                                                         *)
(* Descriptor numbers are modelled as the kernel gives them out: the       *)
(* lowest free number first.  The program keeps numbers in its list after  *)
(* it has closed them, so what a number refers to (use) and what the list  *)
(* says (chats) are two things.                                            *)
(*                                                                         *)
(* SIGCHLD is one pending bit, and its handler may run between any two     *)
(* steps of the program.  In the login phase the server's side is modelled *)
(* message by message; in the select loop the server is an environment     *)
(* that sends any message.                                                 *)
(***************************************************************************)
EXTENDS Integers, Sequences, FiniteSets

CONSTANTS Friend,   \* the other users
          Window,   \* processes: xterm with ./chat (bounds how many are forked)
          MaxFd,    \* descriptor numbers 1..MaxFd for socketpairs and histories
          Stdin, Server,   \* the other two members of readfds
          Nobody

ASSUME ClientAssumption ==
  /\ MaxFd \in Nat
  /\ Nobody \notin Friend \cup Window
  /\ {Stdin, Server} \cap Int = {} /\ Stdin # Server

VARIABLES
  new,       \* cFlag: the client asks for a new account
  cpc,       \* the client's place in the login dialogue; "loop" after it
  spc,       \* the login thread's place
  toServer,  \* messages on their way, oldest first
  toClient,
  chats,     \* the list that starts at chat_head
  use,       \* what each descriptor number refers to
  win,       \* windows: none, alive, killed (SIGQUIT sent), zombie, reaped
  peerOf,    \* the friend a window was opened for
  typed,     \* windows with a line that the client has not read
  sig,       \* SIGCHLD is pending
  handling,  \* catchSigChild runs
  at,        \* main: place in selectLoop
  todo,      \* members of readfds not handled in this round
  peer,      \* the friend of the MSG being handled
  made       \* what createChat has made and not stored yet

loginVars == <<new, cpc, spc, toServer, toClient>>
signalVars == <<sig, handling>>
mainVars == <<at, todo, peer, made>>
chatVars == <<chats, use, win, peerOf, typed, signalVars, mainVars>>
vars == <<loginVars, chatVars>>

Fd == 1..MaxFd
Unused == [kind |-> "unused", of |-> Nobody]
Near(w) == [kind |-> "near", of |-> w]      \* socket_pair[0], kept by the client
Far(w) == [kind |-> "far", of |-> w]        \* socket_pair[1], passed to ./chat
History(n) == [kind |-> "history", of |-> n]
NoChat == [fd |-> 0, passed |-> 0, history |-> 0, pid |-> Nobody]

Lowest(S) == CHOOSE f \in S : \A g \in S : f <= g
FirstOf(S) == IF S = {} THEN 0 ELSE Lowest(S)

(* getChatByFd, getChat and removeChatPid find the first of the list; 0 is   *)
(* NULL.                                                                     *)
ChatByFd(f) == FirstOf({i \in DOMAIN chats : chats[i].fd = f})
ChatOf(n) == FirstOf({i \in DOMAIN chats : chats[i].name = n})
ChatByPid(w) == FirstOf({i \in DOMAIN chats : chats[i].pid = w})

-----------------------------------------------------------------------------
(* The login dialogue.                                                       *)

LoginInit ==
  /\ new \in BOOLEAN
  /\ cpc = "start" /\ spc = "wolfie"
  /\ toServer = <<>> /\ toClient = <<>>

ClientEnded == {"refused", "lost"}

Send(m) == toServer' = Append(toServer, m)

(* One handleProtocolInput of the client. *)
Take(m) == toClient # <<>> /\ m = Head(toClient) /\ UNCHANGED chatVars
Receive(m) == Take(m) /\ toClient' = Tail(toClient) /\ UNCHANGED <<new, spc>>

(* main goes on to selectLoop, where the server is the environment: what is  *)
(* left of the dialogue has no more part and is reset.                       *)
EnterLoop ==
  /\ cpc' = "loop" /\ spc' = "over" /\ new' = FALSE
  /\ toServer' = <<>> /\ toClient' = <<>>

SendWolfie ==
  /\ cpc = "start" /\ cpc' = "eiflow"
  /\ Send("WOLFIE")
  /\ UNCHANGED <<new, spc, toClient, chatVars>>

(* The answer to WOLFIE is read and not looked at. *)
ReadEiflow(m) ==
  /\ cpc = "eiflow" /\ Receive(m)
  /\ cpc' = "claim"
  /\ Send(IF new THEN "IAMNEW" ELSE "IAM")

ReadClaimAnswer(m) ==
  /\ cpc = "claim" /\ Receive(m)
  /\ cpc' = IF m = (IF new THEN "HINEW" ELSE "AUTH") THEN "prompt" ELSE "bye"
  /\ UNCHANGED toServer

(* promptPassword: the user types it. *)
SendPassword ==
  /\ cpc = "prompt" /\ cpc' = "password"
  /\ Send(IF new THEN "NEWPASS" ELSE "PASS")
  /\ UNCHANGED <<new, spc, toClient, chatVars>>

(* MUTANT of ReadPasswordAnswer: the answer is not looked at. *)
TrustPasswordAnswer(m) ==
  /\ cpc = "password" /\ Receive(m)
  /\ cpc' = "hi"
  /\ UNCHANGED toServer

ReadPasswordAnswer(m) ==
  /\ cpc = "password" /\ Receive(m)
  /\ cpc' = IF m = (IF new THEN "SSAPWEN" ELSE "SSAP") THEN "hi" ELSE "bye"
  /\ UNCHANGED toServer

(* Neither HI nor ERR: the function returns and main enters selectLoop. *)
ReadHi(m) ==
  /\ cpc = "hi"
  /\ IF m \in {"HI", "ERR"}
       THEN /\ Receive(m) /\ UNCHANGED toServer
            /\ cpc' = IF m = "HI" THEN "motd" ELSE "byeHi"
       ELSE Take(m) /\ EnterLoop

(* Whatever comes is the message of the day. *)
ReadMotd(m) == cpc = "motd" /\ Take(m) /\ EnterLoop

(* The message after ERR, whatever it is, ends the client; after an ERR in   *)
(* the place of HI, which this server never sends, only BYE does, and is     *)
(* answered.                                                                 *)
ReadBye(m) ==
  /\ cpc \in {"bye", "byeHi"}
  /\ IF cpc = "bye" \/ m = "BYE"
       THEN /\ Receive(m) /\ cpc' = "refused"
            /\ IF cpc = "byeHi" THEN Send("BYE") ELSE UNCHANGED toServer
       ELSE Take(m) /\ EnterLoop

(* handleDisconnection at a read that returns nothing; a reset may overtake  *)
(* messages that were sent before it.                                        *)
ServerLost ==
  /\ cpc \in {"eiflow", "claim", "password", "hi", "motd", "bye", "byeHi"}
  /\ spc = "gone" /\ cpc' = "lost"
  /\ UNCHANGED <<new, spc, toServer, toClient, chatVars>>

(* SIGINT, SIGTERM: doLogout in the handler. *)
QuitLogin ==
  /\ cpc \notin {"loop"} \cup ClientEnded /\ cpc' = "lost"
  /\ UNCHANGED <<new, spc, toServer, toClient, chatVars>>

(* The server's side. *)

Serve(m) == toServer # <<>> /\ m = Head(toServer) /\ toServer' = Tail(toServer)
Reply(ms) == toClient' = toClient \o ms
Dialogue == cpc # "loop" /\ UNCHANGED <<new, cpc, chatVars>>

ServerWolfie(m) ==
  /\ spc = "wolfie" /\ Serve(m) /\ Dialogue
  /\ spc' = "iam"
  /\ Reply(IF m = "WOLFIE" THEN <<"EIFLOW">> ELSE <<>>)

(* MUTANT of Refused: the refusal is not followed by BYE. *)
RefusedWithoutBye == <<"ERR">>

(* Whether the name is free, or known and not in use, is the server's        *)
(* affair; so is the password below.                                         *)
Refused == <<"ERR", "BYE">>

ServerClaim(m, accepted) ==
  /\ spc = "iam" /\ Serve(m) /\ Dialogue
  /\ IF accepted /\ m \in {"IAM", "IAMNEW"}
       THEN /\ spc' = "secret"
            /\ Reply(<<IF m = "IAMNEW" THEN "HINEW" ELSE "AUTH">>)
       ELSE spc' = "out" /\ Reply(Refused)

ServerSecret(m, accepted) ==
  /\ spc = "secret" /\ Serve(m) /\ Dialogue
  /\ IF accepted /\ m = (IF new THEN "NEWPASS" ELSE "PASS")
       THEN /\ spc' = "hi"
            /\ Reply(<<IF new THEN "SSAPWEN" ELSE "SSAP">>)
       ELSE spc' = "out" /\ Reply(Refused)

ServerHi ==
  /\ spc = "hi" /\ spc' = "motd" /\ Dialogue
  /\ Reply(<<"HI">>) /\ UNCHANGED toServer

ServerMotd ==
  /\ spc = "motd" /\ spc' = "in" /\ Dialogue
  /\ Reply(<<"MOTD">>) /\ UNCHANGED toServer

(* The main thread relays a message to a user whose thread is still between  *)
(* HI and MOTD.  A new user's record is found only after his MOTD.           *)
RelayEarly ==
  /\ spc = "motd" /\ ~new /\ "MSG" \notin {toClient[i] : i \in DOMAIN toClient}
  /\ Dialogue /\ Reply(<<"MSG">>)
  /\ UNCHANGED <<spc, toServer>>

(* checkClientCrash: the client is gone and has nothing more to say. *)
ClientLost ==
  /\ spc \in {"wolfie", "iam", "secret"} /\ toServer = <<>>
  /\ cpc \in ClientEnded /\ spc' = "out" /\ Dialogue
  /\ UNCHANGED <<toServer, toClient>>

ServerStops ==
  /\ spc # "gone" /\ spc' = "gone" /\ Dialogue
  /\ UNCHANGED <<toServer, toClient>>

-----------------------------------------------------------------------------
(* The windows.                                                              *)

ChatsInit ==
  /\ chats = <<>>
  /\ use = [f \in Fd |-> Unused]
  /\ win = [w \in Window |-> "none"]
  /\ peerOf = [w \in Window |-> Nobody]
  /\ typed = {}
  /\ sig = FALSE /\ handling = FALSE
  /\ at = "select" /\ todo = {} /\ peer = Nobody /\ made = NoChat

(* The process: it has ended, or its main code runs. *)
Running == cpc = "loop" /\ at \notin {"loggedOut", "interrupted", "crashed"}
InMain == Running /\ ~handling

(* The friend types a line; ./chat writes it to its socket.  A line that     *)
(* nobody can read any more is left out.                                     *)
Type(w) ==
  /\ Running /\ win[w] = "alive" /\ w \notin typed
  /\ \E f \in Fd : use[f] = Near(w)
  /\ typed' = typed \cup {w}
  /\ UNCHANGED <<loginVars, chats, use, win, peerOf, signalVars, mainVars>>

(* /close, the window is closed by hand, or SIGQUIT has its effect. *)
Die(w) ==
  /\ Running /\ win[w] \in {"alive", "killed"}
  /\ win' = [win EXCEPT ![w] = "zombie"]
  /\ sig' = TRUE
  /\ UNCHANGED <<loginVars, chats, use, peerOf, typed, handling, mainVars>>

CatchSigChild ==
  /\ InMain /\ sig
  /\ sig' = FALSE /\ handling' = TRUE
  /\ UNCHANGED <<loginVars, chats, use, win, peerOf, typed, mainVars>>

(* removeChatPid: nothing is removed and no descriptor is closed. *)
MarkClosed(i) == [chats EXCEPT ![i].disconnected = TRUE, ![i].chatClosed = TRUE]

(* wait(NULL) returns one dead child, and there may be more of them. *)
Reap(w) ==
  /\ Running /\ handling /\ win[w] = "zombie"
  /\ win' = [win EXCEPT ![w] = "reaped"]
  /\ handling' = FALSE
  /\ chats' = IF ChatByPid(w) = 0 THEN chats ELSE MarkClosed(ChatByPid(w))
  /\ UNCHANGED <<loginVars, use, peerOf, typed, sig, mainVars>>

(* The process ends: its memory is gone and the kernel closes what is open.  *)
EndAs(end) ==
  /\ at' = end
  /\ chats' = <<>> /\ peerOf' = [w \in Window |-> Nobody]
  /\ use' = [f \in Fd |-> Unused]
  /\ typed' = {} /\ sig' = FALSE /\ handling' = FALSE
  /\ todo' = {} /\ peer' = Nobody /\ made' = NoChat
  /\ UNCHANGED loginVars

(* closeAllChats, doLogout. *)
LeaveAs(end) ==
  /\ EndAs(end)
  /\ win' = [w \in Window |->
       IF win[w] = "alive" /\ \E i \in DOMAIN chats : chats[i].pid = w
         THEN "killed" ELSE win[w]]

(* catchCtrlC, catchSigQuit: at any point, between fork and addToChats too. *)
Interrupt == Running /\ LeaveAs("interrupted")

(* SIGSEGV: the windows are left alone. *)
Crash == EndAs("crashed") /\ UNCHANGED win

(* select: sockets and history files of open chats are watched.  A file is    *)
(* always readable; its number is looked at if it is below the greatest       *)
(* socket's (findGreatestChatFd).  A socket that is not open makes select     *)
(* fail, and the loop calls it again with the same set.                       *)
OpenChats == {i \in DOMAIN chats : ~chats[i].chatClosed}
Watched == {chats[i].fd : i \in OpenChats}
Readable ==
  {f \in Watched : \E w \in typed : use[f] = Near(w)} \cup
  {f \in {chats[i].history : i \in OpenChats} : \E g \in Watched : f < g}

Select ==
  /\ InMain /\ at = "select"
  /\ \A f \in Watched : use[f] # Unused
  /\ \E others \in SUBSET {Stdin, Server} :
       /\ todo' = Readable \cup others
       /\ todo' # {}
  /\ at' = "round"
  /\ UNCHANGED <<loginVars, chats, use, win, peerOf, typed, signalVars, peer,
                 made>>

(* The descriptors are handled in the order of their numbers: 0, the         *)
(* server's socket, then the windows'.                                       *)
Done(m) == todo' = todo \ {m}
InRound == InMain /\ at = "round"

EndRound ==
  /\ InRound /\ todo = {} /\ at' = "select"
  /\ UNCHANGED <<loginVars, chats, use, win, peerOf, typed, signalVars, todo,
                 peer, made>>

(* A command; /chat and the others only write to the server or the screen.   *)
Command(isLogout) ==
  /\ InRound /\ Stdin \in todo /\ Done(Stdin)
  /\ at' = IF isLogout THEN "logout" ELSE "round"
  /\ UNCHANGED <<loginVars, chats, use, win, peerOf, typed, signalVars, peer,
                 made>>

(* logout: BYE is sent and one message read.  Any other message is dropped   *)
(* and the loop goes on until the server's BYE comes.                        *)
LogoutAnswered == InMain /\ at = "logout" /\ LeaveAs("loggedOut")
LogoutDelayed ==
  /\ InMain /\ at = "logout" /\ at' = "round"
  /\ UNCHANGED <<loginVars, chats, use, win, peerOf, typed, signalVars, todo,
                 peer, made>>

ServersTurn == InRound /\ Stdin \notin todo /\ Server \in todo

(* BYE, or the server is gone. *)
ServerBye == ServersTurn /\ LeaveAs("loggedOut")

(* EMIT, UTSIL, ERR: printed and logged. *)
ServerText ==
  /\ ServersTurn /\ Done(Server)
  /\ UNCHANGED <<loginVars, chats, use, win, peerOf, typed, signalVars, at,
                 peer, made>>

(* handleUoff. *)
Uoff(n) ==
  /\ ServersTurn /\ Done(Server)
  /\ chats' = IF ChatOf(n) = 0 THEN chats
              ELSE [chats EXCEPT ![ChatOf(n)].disconnected = TRUE]
  /\ UNCHANGED <<loginVars, use, win, peerOf, typed, signalVars, at, peer, made>>

(* MUTANT of NeedsWindow: a chat of the list keeps its window for ever. *)
NeverAgain(i) == FALSE

NeedsWindow(i) == chats[i].disconnected

(* handleMsgReceived, up to createChat. *)
Msg(n) ==
  /\ ServersTurn /\ Done(Server)
  /\ peer' = n
  /\ LET i == ChatOf(n) IN
       CASE i = 0 -> at' = "create" /\ UNCHANGED chats
         [] i # 0 /\ NeedsWindow(i) ->
              /\ at' = "create"
              /\ chats' = [chats EXCEPT ![i].disconnected = FALSE,
                                        ![i].chatClosed = FALSE]
         [] OTHER -> at' = "show" /\ UNCHANGED chats
  /\ UNCHANGED <<loginVars, use, win, peerOf, typed, signalVars, made>>

FreeFds == {f \in Fd : use[f] = Unused}

(* socketpair, open of the history file, fork: three descriptors, lowest     *)
(* numbers first.  Bounded by MaxFd and Window.                              *)
CreateChat(w) ==
  /\ InMain /\ at = "create" /\ win[w] = "none"
  /\ Cardinality(FreeFds) >= 3
  /\ LET a == Lowest(FreeFds)
         b == Lowest(FreeFds \ {a})
         c == Lowest(FreeFds \ {a, b})
     IN /\ use' = [use EXCEPT ![a] = Near(w), ![b] = Far(w), ![c] = History(peer)]
        /\ made' = [fd |-> a, passed |-> b, history |-> c, pid |-> w]
  /\ win' = [win EXCEPT ![w] = "alive"]
  /\ peerOf' = [peerOf EXCEPT ![w] = peer]
  /\ at' = "forked"
  /\ UNCHANGED <<loginVars, chats, typed, signalVars, todo, peer>>

(* MUTANT of StoreChat: the list gets the record before it is filled in. *)
StoreEmpty ==
  /\ InMain /\ at = "forked"
  /\ chats' = Append(chats, [name |-> peer, fd |-> 0, passed |-> 0,
                history |-> 0, pid |-> Nobody, disconnected |-> FALSE,
                chatClosed |-> FALSE])
  /\ made' = NoChat /\ at' = "show"
  /\ UNCHANGED <<loginVars, use, win, peerOf, typed, signalVars, todo, peer>>

(* MUTANT of StoreChat: a chat that gets a new window keeps its number.      *)
StorePidOnly ==
  /\ InMain /\ at = "forked"
  /\ LET i == ChatOf(peer) IN
       chats' = IF i = 0
         THEN Append(chats, [name |-> peer, fd |-> made.fd, passed |-> made.passed,
                history |-> made.history, pid |-> made.pid,
                disconnected |-> FALSE, chatClosed |-> FALSE])
         ELSE [chats EXCEPT ![i].pid = made.pid]
  /\ made' = NoChat /\ at' = "show"
  /\ UNCHANGED <<loginVars, use, win, peerOf, typed, signalVars, todo, peer>>

(* temp->pid = pid, and addToChats for a chat that is not in the list yet.   *)
StoreChat ==
  /\ InMain /\ at = "forked"
  /\ LET i == ChatOf(peer) IN
       chats' = IF i = 0
         THEN Append(chats, [name |-> peer, fd |-> made.fd, passed |-> made.passed,
                history |-> made.history, pid |-> made.pid,
                disconnected |-> FALSE, chatClosed |-> FALSE])
         ELSE [chats EXCEPT ![i].fd = made.fd, ![i].passed = made.passed,
                ![i].history = made.history, ![i].pid = made.pid]
  /\ made' = NoChat /\ at' = "show"
  /\ UNCHANGED <<loginVars, use, win, peerOf, typed, signalVars, todo, peer>>

(* sendMsgToChat: the text goes to the friend's chat and into the history of *)
(* the first chat with its descriptor number.                                *)
ShowMsg ==
  /\ InMain /\ at = "show" /\ at' = "round" /\ peer' = Nobody
  /\ UNCHANGED <<loginVars, chats, use, win, peerOf, typed, signalVars, todo,
                 made>>

ChatsTurn(f) ==
  InRound /\ todo \cap {Stdin, Server} = {} /\ f \in todo /\ f = Lowest(todo)

IsHistoryFd(f) == \E i \in DOMAIN chats : chats[i].history = f

(* MUTANT of TakesLines: a chat is only closed if it is not closed yet.      *)
ClosesOnce(i) == ~(chats[i].disconnected /\ ~chats[i].chatClosed)

TakesLines(i) == ~chats[i].disconnected

(* getChatByFd returns NULL, or the descriptor was closed in this round. *)
WindowNull(f) ==
  /\ ChatsTurn(f) /\ ~IsHistoryFd(f)
  /\ \/ ChatByFd(f) = 0
     \/ ChatByFd(f) # 0 /\ TakesLines(ChatByFd(f)) /\ use[f] = Unused
  /\ Crash

WindowSkipped(f) ==
  /\ ChatsTurn(f) /\ IsHistoryFd(f) /\ Done(f)
  /\ UNCHANGED <<loginVars, chats, use, win, peerOf, typed, signalVars, at,
                 peer, made>>

(* handleChatInput: MSG with the chat's name is sent to the server. *)
WindowLine(f) ==
  /\ ChatsTurn(f) /\ ~IsHistoryFd(f) /\ ChatByFd(f) # 0
  /\ TakesLines(ChatByFd(f)) /\ use[f] # Unused
  /\ typed' = typed \ {use[f].of} /\ Done(f)
  /\ UNCHANGED <<loginVars, chats, use, win, peerOf, signalVars, at, peer, made>>

(* closeChatWindow of the first chat with this number. *)
CloseChatWindow(f) ==
  /\ ChatsTurn(f) /\ ~IsHistoryFd(f) /\ ChatByFd(f) # 0
  /\ ~TakesLines(ChatByFd(f))
  /\ LET i == ChatByFd(f)
         shut == {chats[i].fd, chats[i].passed}
         w == chats[i].pid
     IN /\ win' = IF win[w] = "alive" THEN [win EXCEPT ![w] = "killed"] ELSE win
        /\ use' = [g \in Fd |-> IF g \in shut THEN Unused ELSE use[g]]
        /\ typed' = {v \in typed : \A g \in shut : use[g] # Near(v)}
        /\ chats' = [chats EXCEPT ![i].chatClosed = TRUE]
  /\ Done(f)
  /\ UNCHANGED <<loginVars, peerOf, signalVars, at, peer, made>>

-----------------------------------------------------------------------------

Init == LoginInit /\ ChatsInit

Verb == {"WOLFIE", "EIFLOW", "IAM", "IAMNEW", "AUTH", "HINEW", "PASS",
         "NEWPASS", "SSAP", "SSAPWEN", "HI", "MOTD", "MSG", "ERR", "BYE"}

ClientLogin ==
  \/ SendWolfie \/ SendPassword \/ ServerLost
  \/ \E m \in Verb :
       \/ ReadEiflow(m) \/ ReadClaimAnswer(m) \/ ReadPasswordAnswer(m)
       \/ ReadHi(m) \/ ReadMotd(m) \/ ReadBye(m)

ServerLogin ==
  \/ ServerHi \/ ServerMotd \/ ClientLost
  \/ \E m \in Verb :
       \/ ServerWolfie(m)
       \/ \E ok \in BOOLEAN : ServerClaim(m, ok) \/ ServerSecret(m, ok)

Main ==
  \/ Select \/ EndRound \/ LogoutAnswered \/ LogoutDelayed
  \/ \E isLogout \in BOOLEAN : Command(isLogout)
  \/ ServerBye \/ ServerText
  \/ \E n \in Friend : Uoff(n) \/ Msg(n)
  \/ \E w \in Window : CreateChat(w)
  \/ StoreChat \/ ShowMsg
  \/ \E f \in Fd :
       WindowNull(f) \/ WindowSkipped(f) \/ WindowLine(f) \/ CloseChatWindow(f)

Next ==
  \/ ClientLogin \/ ServerLogin
  \/ QuitLogin \/ RelayEarly \/ ServerStops
  \/ Main \/ CatchSigChild \/ Interrupt
  \/ \E w \in Window : Type(w) \/ Die(w) \/ Reap(w)

Spec == Init /\ [][Next]_vars

(* The user answers the password prompt and the login thread gets its turns  *)
(* (chat_server_steady says when it does).                                   *)
FairSpec == Spec /\ WF_vars(ClientLogin) /\ WF_vars(ServerLogin)

-----------------------------------------------------------------------------
(* Types of the client's state.                                              *)
TypeOK ==
  /\ new \in BOOLEAN
  /\ cpc \in {"start", "eiflow", "claim", "prompt", "password", "hi", "motd",
              "bye", "byeHi", "loop"} \cup ClientEnded
  /\ spc \in {"wolfie", "iam", "secret", "hi", "motd", "in", "out", "gone",
              "over"}
  /\ toServer \in Seq(Verb) /\ toClient \in Seq(Verb)
  /\ chats \in Seq([name : Friend, fd : Fd, passed : Fd, history : Fd,
                    pid : Window, disconnected : BOOLEAN, chatClosed : BOOLEAN])
  /\ use \in [Fd -> [kind : {"unused", "near", "far", "history"},
                     of : Window \cup Friend \cup {Nobody}]]
  /\ win \in [Window -> {"none", "alive", "killed", "zombie", "reaped"}]
  /\ peerOf \in [Window -> Friend \cup {Nobody}]
  /\ typed \subseteq Window
  /\ sig \in BOOLEAN /\ handling \in BOOLEAN
  /\ at \in {"select", "round", "logout", "create", "forked", "show",
             "loggedOut", "interrupted", "crashed"}
  /\ todo \subseteq Fd \cup {Stdin, Server}
  /\ peer \in Friend \cup {Nobody}
  /\ made \in [fd : Fd, passed : Fd, history : Fd, pid : Window] \cup {NoChat}

(* Client and server agree on the outcome of a login: a client that goes on  *)
(* to its select loop has a session (or its server has died), a client that  *)
(* ends after a refusal has none (client.c handleLoginProtocol and server.c  *)
(* loginProtocol, two programs that only share the order of the messages).   *)
LoginAgrees ==
  [][/\ cpc # "loop" /\ cpc' = "loop" => spc \in {"motd", "in", "gone"}
     /\ cpc' = "refused" => spc \in {"out", "gone"}]_vars

(* No login dialogue ends with both programs waiting for each other.         *)
LoginFinishes == <>(cpc \in {"loop"} \cup ClientEnded)

(* A descriptor number that a chat in use carries refers to the socket of a  *)
(* window opened for its friend or to nothing, never to another's; and no    *)
(* other chat in use carries it (createChat, closeChatWindow and             *)
(* removeChatPid, which leave numbers of closed windows in the list).  Chats *)
(* that have been marked disconnected may carry anything.                    *)
InUse(i) ==
  ~chats[i].disconnected /\ ~(at \in {"create", "forked"} /\ chats[i].name = peer)
LiveChatsApart ==
  Running => \A i \in DOMAIN chats : InUse(i) =>
    /\ \/ use[chats[i].fd] = Unused
       \/ \E w \in Window :
            use[chats[i].fd] = Near(w) /\ peerOf[w] = chats[i].name
    /\ \A j \in DOMAIN chats :
         j # i /\ InUse(j) => chats[j].fd # chats[i].fd

(* A line that is read from a window is sent to the friend the window was    *)
(* opened for, although getChatByFd takes the first chat with the number     *)
(* (selectLoop, handleChatInput).                                            *)
LinesReachFriend ==
  at = "round" => \A f \in todo \cap Fd :
    LET i == ChatByFd(f) IN
      i # 0 /\ TakesLines(i) /\ use[f] # Unused /\ ~IsHistoryFd(f) =>
        \E w \in Window : use[f] = Near(w) /\ peerOf[w] = chats[i].name

(* The text of a MSG is written to a socket whose window was opened for the  *)
(* friend who talks, even if windows die and numbers are reused meanwhile    *)
(* (handleMsgReceived, sendMsgToChat).                                       *)
MsgReachesWindow ==
  at = "show" =>
    /\ ChatOf(peer) # 0
    /\ \E w \in Window :
         use[chats[ChatOf(peer)].fd] = Near(w) /\ peerOf[w] = peer

(* README.md: /logout closes all chat windows.                               *)
LogoutClosesAll == at = "loggedOut" => \A w \in Window : win[w] # "alive"
=============================================================================
