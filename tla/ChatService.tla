----------------------------- MODULE ChatService -----------------------------
(***************************************************************************)
(* What the chat server of hw6/server.c promises about accounts and        *)
(* sessions, with no threads, no mutex and no messages: an account is      *)
(* created once and keeps its password, a session belongs to one account   *)
(* and one connection and is opened only while the account has no other,   *)
(* and a stopped server forgets every session but, with an accounts file,  *)
(* no account.  ChatServer implements this module.                         *)
(***************************************************************************)
CONSTANTS Name,        \* account names
          Password,    \* passwords a client can send
          Valid,       \* those validPassword accepts
          Fd,          \* sockets a session can use
          NoFd,        \* no session
          Persistent   \* the server was started with an ACCOUNTS_FILE

VARIABLES accounts,    \* the accounts: a set of [name, password]
          session      \* the socket of each name's session, or NoFd

vars == <<accounts, session>>

InUse == {session[n] : n \in Name} \ {NoFd}
HasAccount(n) == \E a \in accounts : a.name = n

Init ==
  /\ accounts = {}
  /\ session = [n \in Name |-> NoFd]

(* IAMNEW and NEWPASS: the new account starts with a session. *)
Register(n, p, f) ==
  /\ ~HasAccount(n)
  /\ f \notin InUse
  /\ accounts' = accounts \cup {[name |-> n, password |-> p]}
  /\ session' = [session EXCEPT ![n] = f]

(* IAM and PASS. *)
Login(n, f) ==
  /\ HasAccount(n)
  /\ session[n] = NoFd
  /\ f \notin InUse
  /\ session' = [session EXCEPT ![n] = f]
  /\ UNCHANGED accounts

(* BYE, or the client vanished. *)
Logout(n) ==
  /\ session[n] # NoFd
  /\ session' = [session EXCEPT ![n] = NoFd]
  /\ UNCHANGED accounts

(* The server process ends, in any way. *)
Stop ==
  /\ session' = [n \in Name |-> NoFd]
  /\ accounts' = IF Persistent THEN accounts ELSE {}

Next ==
  \/ \E n \in Name, p \in Valid, f \in Fd : Register(n, p, f)
  \/ \E n \in Name, f \in Fd : Login(n, f)
  \/ \E n \in Name : Logout(n)
  \/ Stop

Spec == Init /\ [][Next]_vars
=============================================================================
