---------------------------- MODULE MCFirstServer ----------------------------
(* FirstServer for TLC: names and sockets are interchangeable, and so are    *)
(* threads and valid passwords.                                              *)
EXTENDS FirstServer, TLC

Symmetry ==
  Permutations(Name) \cup Permutations(Fd) \cup Permutations(Thread)
    \cup Permutations(Valid)
=============================================================================
