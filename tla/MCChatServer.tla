---------------------------- MODULE MCChatServer ----------------------------
(* ChatServer on small instances: the sets come from the configurations.    *)
EXTENDS ChatServer, TLC

(* Names, sockets, records and threads are interchangeable. *)
Symmetry ==
  Permutations(Name) \cup Permutations(Fd) \cup Permutations(Rec)
    \cup Permutations(Thread)
=============================================================================
