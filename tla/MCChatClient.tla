---------------------------- MODULE MCChatClient ----------------------------
(* The client for TLC: friends and windows are interchangeable.              *)
EXTENDS ChatClient, TLC

Symmetry == Permutations(Friend) \cup Permutations(Window)
=============================================================================
