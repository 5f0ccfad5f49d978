---------------------------- MODULE LoginService ----------------------------
(***************************************************************************)
(* What the login queue of hw6/server.c promises its users: connections    *)
(* that the main thread hands over are given to the pool's login threads   *)
(* in the order in which they arrived, each to one thread.  The abstract   *)
(* specification LoginQueue implements: no nodes, no pointers, no mutex    *)
(* and no semaphore, only who waits and who is being logged in.            *)
(***************************************************************************)
EXTENDS Sequences

CONSTANTS Conn,    \* accepted connections (struct user records)
          Worker,  \* the pool's login threads
          NULL

VARIABLES waiting,  \* the connections not yet taken, oldest first
          serving   \* the connection each worker is logging in

vars == <<waiting, serving>>

Init ==
  /\ waiting = <<>>
  /\ serving = [w \in Worker |-> NULL]

(* A connection joins the end of the queue. *)
Arrive(c) ==
  /\ waiting' = Append(waiting, c)
  /\ UNCHANGED serving

(* A worker without a connection takes the oldest one. *)
Take(w) ==
  /\ serving[w] = NULL
  /\ waiting # <<>>
  /\ serving' = [serving EXCEPT ![w] = Head(waiting)]
  /\ waiting' = Tail(waiting)

(* The login dialogue of a worker's connection is over. *)
Finish(w) ==
  /\ serving[w] # NULL
  /\ serving' = [serving EXCEPT ![w] = NULL]
  /\ UNCHANGED waiting

Next ==
  \/ \E c \in Conn : Arrive(c)
  \/ \E w \in Worker : Take(w) \/ Finish(w)

Spec == Init /\ [][Next]_vars
=============================================================================
