---------------------------- MODULE MCLoginQueue ----------------------------
(* LoginQueue on small instances: the sets come from the configurations.    *)
EXTENDS LoginQueue

(* calloc never fails: there is an address for every queued connection. *)
ASSUME EnoughNodes == Cardinality(Conn) <= Cardinality(Node)
=============================================================================
